---- MODULE Spec2Model ----
(***************************************************************************)
(* Model of scripts/check_prepbufr.py: the per-subset checks of            *)
(* check_file, the aggregation by msg_type and the final status; the       *)
(* sampling pass of _autodetect_pressure_unit; the choices of the parser   *)
(* of main; the progress display, the decoder's errors and the three CSV   *)
(* writers.  Model of scripts/prepbufr_cptec_gsi.py: process, write_subset *)
(* and the calls ensure_open_message makes to the BUFR library.            *)
(*                                                                         *)
(* Numbers are fixed-point, in hundredths of the unit of the source        *)
(* (DHR = 4.0 h is 400, TOB = 500 K is 50000, QOB = 0.05 kg/kg is 5).      *)
(* A float is a record [k, v, d]: k = "fin" for the finite value v/d,      *)
(* "nan", or "inf" with the sign in v.  k = "abs" stands for what the      *)
(* decoder returns for a mnemonic that is not in the subset (an array of   *)
(* size 0, which _read1 and _read_scalar turn into None).                  *)
(***************************************************************************)
EXTENDS Integers, Sequences, FiniteSets, TLC

\* ------------------------------------------------------------------ bounds
\* Subsets read in one run of the main loop.
MaxRecs == 2
\* Messages read in one run of the main loop.
MaxMsgs == 2
\* Input files of one run of the converter.
MaxInputs == 2

\* ------------------------------------------------------------------ floats
Fin(n) == [k |-> "fin", v |-> n, d |-> 1]
NaN == [k |-> "nan", v |-> 0, d |-> 1]
PosInf == [k |-> "inf", v |-> 1, d |-> 1]
NegInf == [k |-> "inf", v |-> -1, d |-> 1]
Absent == [k |-> "abs", v |-> 0, d |-> 1]

\* val is None
IsNone(a) == a.k = "abs"
\* np.isfinite(val)
IsFinite(a) == a.k = "fin"
\* -x
Neg(a) == [a EXCEPT !.v = -(a.v)]
\* a <= b on floats: every comparison with nan is False
FLe(a, b) ==
    IF a.k = "nan" \/ b.k = "nan" THEN FALSE
    ELSE IF a.k = "inf" THEN a.v = -1 \/ (b.k = "inf" /\ b.v = 1)
    ELSE IF b.k = "inf" THEN b.v = 1
    ELSE a.v * b.d <= b.v * a.d
\* a * s for a positive finite factor s (nan and inf are kept)
FMul(a, s) ==
    IF a.k = "fin" THEN [k |-> "fin", v |-> a.v * s.v, d |-> a.d * s.d] ELSE a

\* ------------------------------------------------------------------ config
\* Faulty variant of REQ_HDR: T29 is not required.
REQ_HDR_without_T29 == <<"XOB", "YOB", "DHR", "TYP", "ELV", "SAID">>
REQ_HDR == <<"XOB", "YOB", "DHR", "TYP", "ELV", "SAID", "T29">>

DEFAULT_TWIND_H == 300
DEFAULT_PROGRESS_EVERY == 10000

RANGE ==
    [XOB |-> <<-18000, 18000>>,
     YOB |-> <<-9000, 9000>>,
     TOB |-> <<18000, 34000>>,
     POB |-> <<100, 110000>>,
     ZOB |-> <<-50000, 4000000>>,
     UOB |-> <<-12000, 12000>>,
     VOB |-> <<-12000, 12000>>,
     QOB |-> <<0, 5>>,
     PRSS |-> <<50000, 108500>>,
     PWO |-> <<0, 10000>>]

PRESSURE_UNITS == {"hpa", "cb", "pa", "auto"}
DEFAULT_PRESSURE_UNIT == "hpa"
PRESSURE_AUTODETECT_SAMPLES == 500
\* The windows of hPa, cb and Pa, in hundredths.
PRESSURE_AUTODETECT_THRESH ==
    <<<<5000, 110000>>, <<500, 11000>>, <<500000, 11000000>>>>
\* choices of --kind; "none" stands for the option left out (None)
KIND_CHOICES == {"none", "adpsfc", "adpupa"}

FAIL_HDR == "bad_header"
FAIL_EVENTS == "no_final_event"
FAIL_TIME == "time_out_of_window"
FAIL_UNITS == "bad_units"
FAIL_OBERRS == "missing_oberrs"
FAIL_ADPSFC == "missing_adpsfc"

\* The "var" of a FailRecord that names no variable (None in the source).
NoVar == "None"

FailRecord(msg_type, subset_idx, fail_type, var) ==
    [msg_type |-> msg_type, subset_idx |-> subset_idx,
     fail_type |-> fail_type, var |-> var]

\* The eight variables of the units loop, in the order the loop reads them.
UNIT_VARS == <<"XOB", "YOB", "TOB", "POB", "ZOB", "UOB", "VOB", "QOB">>

\* ------------------------------------------------------------------ subsets
\* A subset as the decoder's read_subset shows it: fld[m] is element [0][0]
\* of the array of a scalar mnemonic (Absent: the array has size 0); seq[s]
\* is the 2-D array of an event sequence, of which the model keeps the shape
\* and the last column.
Fields ==
    {"XOB", "YOB", "DHR", "TYP", "ELV", "SAID", "T29",
     "TOB", "POB", "ZOB", "UOB", "VOB", "QOB",
     "TOE", "WOE", "POE", "ZOE", "QOE", "PRSS", "PWO", "CAT"}
SeqNames == {"TEVN", "WEVN", "PEVN", "ZEVN", "QEVN"}

NoSeq == [ndim |-> 2, nrows |-> 0, ncols |-> 0, last |-> <<>>]
MkSeq(col) == [ndim |-> 2, nrows |-> Len(col), ncols |-> 1, last |-> col]

\* _read1: None when the array has size 0
read1(r, mnem) == r.fld[mnem]
\* _read_scalar: float(a.flat[0]), None when the array has size 0
read_scalar(r, mnem) == read1(r, mnem)
\* _read1 on an event sequence: None when size (rows * columns) is 0
read1_seq(r, name) ==
    IF r.seq[name].nrows * r.seq[name].ncols = 0 THEN NoSeq ELSE r.seq[name]
SeqIsNone(a) == a.nrows * a.ncols = 0

RECURSIVE has_header_from(_, _, _)
has_header_from(r, required, i) ==
    IF i > Len(required) THEN TRUE
    ELSE IF IsNone(r.fld[required[i]]) THEN FALSE
    ELSE has_header_from(r, required, i + 1)
\* _has_header_fast: every mnemonic of required has an array of size > 0
has_header_fast(r, required) == has_header_from(r, required, 1)

\* _last_event: the number of event columns of a 2-D array, 0 otherwise
last_event(a) == IF SeqIsNone(a) THEN 0 ELSE IF a.ndim = 2 THEN a.ncols ELSE 0

\* Faulty variant of _in_range: the bounds themselves are out of range.
in_range_open(val, lo, hi) ==
    IF IsNone(val) \/ ~IsFinite(val) THEN FALSE
    ELSE ~FLe(val, Fin(lo)) /\ ~FLe(Fin(hi), val)
\* _in_range: finite and inside the closed interval [lo, hi]
in_range(val, lo, hi) ==
    IF IsNone(val) \/ ~IsFinite(val) THEN FALSE
    ELSE FLe(Fin(lo), val) /\ FLe(val, Fin(hi))

\* _b2s: the text of a msg_type, bytes decoded
b2s(x) == x.txt

\* _pressure_scale: the factor that converts a value read to hPa
pressure_scale(unit) ==
    IF unit = "hpa" THEN [v |-> 1, d |-> 1]
    ELSE IF unit = "cb" THEN [v |-> 10, d |-> 1]
    ELSE IF unit = "pa" THEN [v |-> 1, d |-> 100]
    ELSE [v |-> 1, d |-> 1]

\* statistics.median: the middle of the sorted samples, or the mean of the
\* two in the middle
median(samples) ==
    LET srt == SortSeq(samples, LAMBDA a, b : a.v < b.v)
        n == Len(srt)
    IN IF n % 2 = 1 THEN srt[(n + 1) \div 2]
       ELSE [k |-> "fin", v |-> srt[n \div 2].v + srt[n \div 2 + 1].v, d |-> 2]

\* lo <= med <= hi for window i of PRESSURE_AUTODETECT_THRESH
in_window(med, i) ==
    /\ FLe(Fin(PRESSURE_AUTODETECT_THRESH[i][1]), med)
    /\ FLe(med, Fin(PRESSURE_AUTODETECT_THRESH[i][2]))

\* Faulty variants of the choice of the unit: the window of cb is tested
\* before the one of hPa, and "auto" is kept when there is no sample.
autodetect_unit_keeps_auto(samples) ==
    IF samples = <<>> THEN "auto"
    ELSE LET med == median(samples)
         IN IF in_window(med, 1) THEN "hpa"
            ELSE IF in_window(med, 2) THEN "cb"
            ELSE IF in_window(med, 3) THEN "pa"
            ELSE "hpa"
autodetect_unit_cb_first(samples) ==
    IF samples = <<>> THEN "hpa"
    ELSE LET med == median(samples)
         IN IF in_window(med, 2) THEN "cb"
            ELSE IF in_window(med, 1) THEN "hpa"
            ELSE IF in_window(med, 3) THEN "pa"
            ELSE "hpa"

\* _autodetect_pressure_unit after the sampling: "hpa" without samples, else
\* the first window, hPa, cb, Pa, that holds the median, else "hpa"
autodetect_unit(samples) ==
    IF samples = <<>> THEN "hpa"
    ELSE LET med == median(samples)
         IN IF in_window(med, 1) THEN "hpa"
            ELSE IF in_window(med, 2) THEN "cb"
            ELSE IF in_window(med, 3) THEN "pa"
            ELSE "hpa"

\* np.isfinite(v) and v > 0
sample_ok(v) == IsFinite(v) /\ ~FLe(v, Fin(0))

\* Faulty variant of the loop over ("POB", "PRSS"): no break when the cap
\* is reached.
sample_subset_no_break(r, samples, cap) ==
    LET pob == r.fld["POB"]
        prss == r.fld["PRSS"]
        s1 == IF ~IsNone(pob) /\ sample_ok(pob) THEN Append(samples, pob)
              ELSE samples
    IN IF ~IsNone(prss) /\ sample_ok(prss) THEN Append(s1, prss) ELSE s1

\* The loop over ("POB", "PRSS") of _autodetect_pressure_unit on one subset:
\* a value read that is finite and > 0 is appended, and the loop breaks when
\* that makes cap samples
sample_subset(r, samples, cap) ==
    LET pob == r.fld["POB"]
        prss == r.fld["PRSS"]
        s1 == IF ~IsNone(pob) /\ sample_ok(pob) THEN Append(samples, pob)
              ELSE samples
    IN IF Len(s1) > Len(samples) /\ Len(s1) >= cap THEN s1
       ELSE IF ~IsNone(prss) /\ sample_ok(prss) THEN Append(s1, prss)
       ELSE s1

\* check_range (closure of check_file): RANGE[name] after the conversion of
\* POB and PRSS to hPa
check_range(r, name, pscale) ==
    LET a0 == read_scalar(r, name)
        a == IF name \in {"POB", "PRSS"} /\ ~IsNone(a0) THEN FMul(a0, pscale) ELSE a0
    IN in_range(a, RANGE[name][1], RANGE[name][2])

\* ------------------------------------------------------------------ checks
\* Header (check_file, "---- Header")
subset_bad_hdr(r) == ~has_header_fast(r, REQ_HDR)

\* Faulty variant of the time window: a DHR on the edge of the window fails.
subset_time_oow_strict(r, twind) ==
    LET dhr_dbg == read_scalar(r, "DHR")
    IN IsNone(dhr_dbg)
       \/ ~(~FLe(dhr_dbg, Neg(Fin(twind))) /\ ~FLe(Fin(twind), dhr_dbg))

\* Time window (check_file, "---- Janela de tempo"):
\* dhr_dbg is None or not (-twind_h <= dhr_dbg <= twind_h)
subset_time_oow(r, twind) ==
    LET dhr_dbg == read_scalar(r, "DHR")
    IN IsNone(dhr_dbg)
       \/ ~(FLe(Neg(Fin(twind)), dhr_dbg) /\ FLe(dhr_dbg, Fin(twind)))

\* Faulty variant of qm_row: WQM is read from row 1, like TQM.
qm_row_first(seq_name) == 1

\* Row (0-based) of the quality mark in the last column: a[1, -1] is TQM,
\* a[2, -1] is WQM
qm_row(seq_name) == IF seq_name = "TEVN" THEN 1 ELSE 2

\* One turn of the loop over ("TEVN", "WEVN"): an event column and a finite
\* quality mark
primary_ok(r, seq_name) ==
    LET a == read1_seq(r, seq_name)
        nev == last_event(a)
    IN /\ nev >= 1
       /\ ~SeqIsNone(a)
       /\ a.nrows >= qm_row(seq_name) + 1
       /\ IsFinite(a.last[qm_row(seq_name) + 1])

\* One turn of the loop over ("PEVN", "ZEVN", "QEVN"): an event column
secondary_ok(r, seq_name) == last_event(read1_seq(r, seq_name)) >= 1

\* seq_ok at the end of "---- Eventos"
seq_ok(r) ==
    \/ \E s \in {"TEVN", "WEVN"} : primary_ok(r, s)
    \/ \E s \in {"PEVN", "ZEVN", "QEVN"} : secondary_ok(r, s)

subset_no_events(r) == ~seq_ok(r)

\* Faulty variant of the units loop: break after the first variable out of
\* range.
bad_unit_vars_first_only(r, pscale) ==
    LET all == SelectSeq(UNIT_VARS,
                         LAMBDA nm : ~IsNone(read1(r, nm))
                                     /\ ~check_range(r, nm, pscale))
    IN IF all = <<>> THEN <<>> ELSE <<Head(all)>>

\* The variables the units loop records, in loop order: present and out of
\* RANGE (no break after the first)
bad_unit_vars(r, pscale) ==
    SelectSeq(UNIT_VARS,
              LAMBDA nm : ~IsNone(read1(r, nm)) /\ ~check_range(r, nm, pscale))

subset_bad_units(r, pscale) == Len(bad_unit_vars(r, pscale)) > 0

\* pairs of "---- Erros de observacao"
OBERR_PAIRS ==
    <<[obs |-> {"TOB"}, err |-> "TOE"],
      [obs |-> {"UOB", "VOB"}, err |-> "WOE"],
      [obs |-> {"POB"}, err |-> "POE"],
      [obs |-> {"ZOB"}, err |-> "ZOE"],
      [obs |-> {"QOB"}, err |-> "QOE"]>>

\* Faulty variant of the observation-error check: the wind pair asks for
\* UOB and VOB both present.
subset_miss_oberrs_wind_both(r, check_on) ==
    /\ check_on
    /\ \E i \in 1..Len(OBERR_PAIRS) :
          /\ \A o \in OBERR_PAIRS[i].obs : ~IsNone(read1(r, o))
          /\ IsNone(read1(r, OBERR_PAIRS[i].err))

\* The loop over pairs: present and _read1(read, err) is None, then break
subset_miss_oberrs(r, check_on) ==
    /\ check_on
    /\ \E i \in 1..Len(OBERR_PAIRS) :
          /\ \E o \in OBERR_PAIRS[i].obs : ~IsNone(read1(r, o))
          /\ IsNone(read1(r, OBERR_PAIRS[i].err))

\* Faulty variants of the ADPSFC check: need_check left out, and CAT not
\* required.
subset_miss_adpsfc_ungated(r, knd, pscale) ==
    /\ knd = "adpsfc"
    /\ LET prss == read1(r, "PRSS")
           pwo == read1(r, "PWO")
           cat == read1(r, "CAT")
       IN \/ IsNone(prss) \/ IsNone(pwo) \/ IsNone(cat)
          \/ ~in_range(FMul(prss, pscale), RANGE["PRSS"][1], RANGE["PRSS"][2])
          \/ ~in_range(pwo, RANGE["PWO"][1], RANGE["PWO"][2])
subset_miss_adpsfc_without_cat(r, knd, pscale) ==
    /\ knd = "adpsfc"
    /\ ~(subset_bad_hdr(r) \/ subset_no_events(r))
    /\ LET prss == read1(r, "PRSS")
           pwo == read1(r, "PWO")
       IN \/ IsNone(prss) \/ IsNone(pwo)
          \/ ~in_range(FMul(prss, pscale), RANGE["PRSS"][1], RANGE["PRSS"][2])
          \/ ~in_range(pwo, RANGE["PWO"][1], RANGE["PWO"][2])

\* "---- ADPSFC": only for kind == "adpsfc" and a subset whose header and
\* events passed
subset_miss_adpsfc(r, knd, pscale) ==
    /\ knd = "adpsfc"
    /\ ~(subset_bad_hdr(r) \/ subset_no_events(r))
    /\ LET prss == read1(r, "PRSS")
           pwo == read1(r, "PWO")
           cat == read1(r, "CAT")
       IN \/ IsNone(prss) \/ IsNone(pwo) \/ IsNone(cat)
          \/ ~in_range(FMul(prss, pscale), RANGE["PRSS"][1], RANGE["PRSS"][2])
          \/ ~in_range(pwo, RANGE["PWO"][1], RANGE["PWO"][2])

\* Faulty variant of the approval: the observation-error and platform
\* checks block approval whether enabled or not.
subset_approved_counts_disabled(r, twind, check_on, knd, pscale) ==
    ~(\/ subset_bad_hdr(r)
      \/ subset_no_events(r)
      \/ subset_time_oow(r, twind)
      \/ subset_bad_units(r, pscale)
      \/ subset_miss_oberrs(r, TRUE)
      \/ subset_miss_adpsfc(r, "adpsfc", pscale))

\* Faulty variant of the approval: subset_time_oow is left out of the list.
subset_approved_ignores_time(r, twind, check_on, knd, pscale) ==
    ~(\/ subset_bad_hdr(r)
      \/ subset_no_events(r)
      \/ subset_bad_units(r, pscale)
      \/ subset_miss_oberrs(r, check_on)
      \/ subset_miss_adpsfc(r, knd, pscale))

\* approved = not any([...]) at "---- Aprovacao do subset"
subset_approved(r, twind, check_on, knd, pscale) ==
    ~(\/ subset_bad_hdr(r)
      \/ subset_no_events(r)
      \/ subset_time_oow(r, twind)
      \/ subset_bad_units(r, pscale)
      \/ subset_miss_oberrs(r, check_on)
      \/ subset_miss_adpsfc(r, knd, pscale))

\* _fmt_where: the formatted line, kept as its parts; None and nan both
\* print as "nan"
fmt_num(x) ==
    IF IsNone(x) \/ x.k = "nan" THEN [txt |-> "nan", n |-> 0]
    ELSE IF x.k = "inf" THEN [txt |-> "inf", n |-> x.v]
    ELSE [txt |-> "num", n |-> x.v]
fmt_where(m, idx, xob, yob, dhr, extra) ==
    [msg_type |-> b2s(m), subset |-> idx, lon |-> fmt_num(xob),
     lat |-> fmt_num(yob), dhr |-> fmt_num(dhr), extra |-> extra]

\* Faulty variant of where_add: len(where_x) <= where_max.
where_add_off_by_one(lst, cap, entry) ==
    IF cap # 0 /\ Len(lst) <= cap THEN Append(lst, entry) ELSE lst

\* where_x.append(...) under "if where_max and len(where_x) < where_max"
where_add(lst, cap, entry) ==
    IF cap # 0 /\ Len(lst) < cap THEN Append(lst, entry) ELSE lst

\* d[k] = 0 for a key seen for the first time (main loop, after advance)
init_key(d, k) == IF k \in DOMAIN d THEN d ELSE d @@ (k :> 0)

\* ---------------------------------------------------------------- converter
\* prepbufr_cptec_gsi.py.  A Python value that ensure_open_message can be
\* handed: None, bytes or int.
PyNone == [rep |-> "none", txt |-> "", n |-> 0]
PyBytes(t) == [rep |-> "bytes", txt |-> t, n |-> 0]
PyInt(i) == [rep |-> "int", txt |-> "", n |-> i]

\* The logical units of open_prepbufr.
L_OUT == 11
L_TAB == 12
\* The missing value of the library, 1.0e10: beyond the integers of the
\* model, it is kept as a value of its own (it is only ever written).
MISS == [k |-> "miss", v |-> 0, d |-> 1]

\* --idate of the usage example, 2025091100, as parse_idate returns it.
IDATE == [year |-> 2025, month |-> 9, day |-> 11, hour |-> 0]
\* int(idate.strftime("%Y%m%d%H"))
idate_int(t) == t.year * 1000000 + t.month * 10000 + t.day * 100 + t.hour

\* bool(x) of an Optional[float]: None and 0.0 are false, nan is true.
truthy(x) == ~IsNone(x) /\ ~(x.k = "fin" /\ x.v = 0)
\* a or b
py_or(a, b) == IF truthy(a) THEN a ELSE b

\* int(x) of a float: truncation towards zero; raises on nan and inf
\* (ok is FALSE).
py_int(x) ==
    IF x.k # "fin" THEN [ok |-> FALSE, n |-> 0]
    ELSE IF x.v >= 0 THEN [ok |-> TRUE, n |-> x.v \div (100 * x.d)]
    ELSE [ok |-> TRUE, n |-> -((-x.v) \div (100 * x.d))]

\* datetime: the days of a month, the validity of the fields and the
\* ordinal of a date (days since 0001-01-01, proleptic Gregorian).
is_leap(y) == y % 4 = 0 /\ (y % 100 # 0 \/ y % 400 = 0)
days_in_month(y, mo) ==
    IF mo = 2 THEN (IF is_leap(y) THEN 29 ELSE 28)
    ELSE IF mo \in {4, 6, 9, 11} THEN 30 ELSE 31
days_before_month(y, mo) ==
    <<0, 31, 59, 90, 120, 151, 181, 212, 243, 273, 304, 334>>[mo]
    + (IF mo > 2 /\ is_leap(y) THEN 1 ELSE 0)
valid_datetime(y, mo, d, h, mi, se) ==
    /\ y \in 1..9999 /\ mo \in 1..12
    /\ d >= 1 /\ d <= days_in_month(y, mo)
    /\ h \in 0..23 /\ mi \in 0..59 /\ se \in 0..59
toordinal(y, mo, d) ==
    365 * (y - 1) + ((y - 1) \div 4) - ((y - 1) \div 100)
    + ((y - 1) \div 400) + days_before_month(y, mo) + d

\* compute_dhr: (t - idate).total_seconds() / 3600.0 from YEAR, MNTH, DAYS,
\* HOUR and MINU, SECO when given; None when one of the first four is None
\* or datetime(...) raises.  The value is seconds / 36 hundredths of an
\* hour.
compute_dhr(r, t0) ==
    LET y == read1(r, "YEAR")
        mo == read1(r, "MNTH")
        d == read1(r, "DAYS")
        h == read1(r, "HOUR")
        mi == py_or(read1(r, "MINU"), Fin(0))
        se == py_or(read1(r, "SECO"), Fin(0))
    IN IF IsNone(y) \/ IsNone(mo) \/ IsNone(d) \/ IsNone(h) THEN Absent
       ELSE IF \E x \in {y, mo, d, h, mi, se} : ~py_int(x).ok THEN Absent
       ELSE IF ~valid_datetime(py_int(y).n, py_int(mo).n, py_int(d).n,
                               py_int(h).n, py_int(mi).n, py_int(se).n)
            THEN Absent
       ELSE [k |-> "fin",
             v |-> (toordinal(py_int(y).n, py_int(mo).n, py_int(d).n)
                      - toordinal(t0.year, t0.month, t0.day)) * 86400
                   + (py_int(h).n - t0.hour) * 3600
                   + py_int(mi).n * 60 + py_int(se).n,
             d |-> 36]

\* f_default and f_missing: x if it is finite, else the second argument.
f_default(x, default) == IF IsNone(x) \/ ~IsFinite(x) THEN default ELSE x
f_missing(x, missing) == IF IsNone(x) \/ ~IsFinite(x) THEN missing ELSE x

\* ev4 of write_subset: the event of one variable, or nothing when the
\* observation is None.
ev4(r, obs_m, qm_m, pc_m, rc_m) ==
    IF IsNone(read1(r, obs_m)) THEN <<>>
    ELSE <<read1(r, obs_m), f_default(read1(r, qm_m), Fin(0)),
           f_default(read1(r, pc_m), Fin(0)),
           f_default(read1(r, rc_m), Fin(0))>>

\* dhr of write_subset: read1(bufr, "DHR") or compute_dhr(bufr, idate_dt)
subset_dhr(r, t0) == py_or(read1(r, "DHR"), compute_dhr(r, t0))

\* write_subset up to writsb: whether it returns True and the subset it
\* hands to the library (header, one event per sequence, PRSS, PWO, CAT).
write_subset(r, t0, ftyp, ft29, knd) ==
    LET xob == read1(r, "XOB")
        yob == read1(r, "YOB")
        dhr == subset_dhr(r, t0)
        u == read1(r, "UOB")
        v == read1(r, "VOB")
    IN IF IsNone(xob) \/ IsNone(yob) \/ IsNone(dhr)
       THEN [ret |-> FALSE, sub |-> <<>>]
       ELSE [ret |-> TRUE,
             sub |->
               [hdr |-> <<xob, yob, dhr,
                          f_default(IF ~IsNone(ftyp) THEN ftyp
                                    ELSE read1(r, "TYP"), Fin(0)),
                          f_default(read1(r, "ELV"), Fin(0)),
                          f_default(read1(r, "SAID"), Fin(0)),
                          f_default(IF ~IsNone(ft29) THEN ft29
                                    ELSE read1(r, "T29"), Fin(0))>>,
                TEVN |-> ev4(r, "TOB", "TQM", "TPC", "TRC"),
                WEVN |-> IF ~IsNone(u) \/ ~IsNone(v)
                         THEN <<f_missing(u, MISS), f_missing(v, MISS),
                                f_default(read1(r, "WQM"), Fin(0)),
                                f_default(read1(r, "WPC"), Fin(0)),
                                f_default(read1(r, "WRC"), Fin(0))>>
                         ELSE <<>>,
                PEVN |-> IF knd = "adpupa"
                         THEN ev4(r, "POB", "PQM", "PPC", "PRC") ELSE <<>>,
                ZEVN |-> IF knd = "adpupa"
                         THEN ev4(r, "ZOB", "ZQM", "ZPC", "ZRC") ELSE <<>>,
                QEVN |-> ev4(r, "QOB", "QQM", "QPC", "QRC"),
                PRSS |-> read1(r, "PRSS"),
                PWO |-> read1(r, "PWO"),
                CAT |-> read1(r, "CAT")]]

\* A call of closmg or openmb: the unit, the message type and the date it
\* is given, as Python values.
BlibCall(fn, unit, typ, date) ==
    [fn |-> fn, unit |-> unit, typ |-> typ, date |-> date]

\* ensure_open_message, by its parameters: the calls it makes and what it
\* returns.
ensure_open_message(cur, mt, lout, idt) ==
    IF cur # mt
    THEN [calls |->
            (IF cur # PyNone
             THEN <<BlibCall("closmg", lout, PyNone, PyNone)>> ELSE <<>>)
            \o <<BlibCall("openmb", lout, mt, idt)>>,
          ret |-> mt]
    ELSE [calls |-> <<>>, ret |-> cur]

\* The library can serve closmg and openmb on the unit connected for
\* output, openmb with a message type and a date.
blib_serves(c, state) ==
    /\ state = "open"
    /\ c.unit = PyInt(L_OUT)
    /\ c.fn = "openmb" => (c.typ.rep = "bytes" /\ c.date.rep = "int")

RECURSIVE blib_run(_, _, _, _)
\* The library on a sequence of message calls: closmg closes the message
\* open on the unit, openmb leaves a message of its type open.  A call the
\* library cannot serve ends the process ("abort"), raises ("raise") or
\* returns with the unit untouched ("ignore"), by the build; after the
\* first two no further call is made.
blib_run(calls, state, msg, on_error) ==
    IF calls = <<>> THEN [msg |-> msg, end |-> "ok"]
    ELSE IF blib_serves(Head(calls), state)
    THEN blib_run(Tail(calls), state,
                  IF Head(calls).fn = "closmg" THEN PyNone
                  ELSE Head(calls).typ,
                  on_error)
    ELSE IF on_error = "ignore"
    THEN blib_run(Tail(calls), state, msg, on_error)
    ELSE [msg |-> msg, end |-> on_error]

\* ------------------------------------------------------------------ inputs
\* msg_type as the decoder gives it: the text and its representation.
MsgTypes ==
    {[rep |-> "str", txt |-> "ADPUPA"], [rep |-> "str", txt |-> "ADPSFC"]}
\* mtyp before the first advance()
NoMsg == [rep |-> "none", txt |-> ""]

GoodTEVN == MkSeq(<<Fin(28000), Fin(200), Fin(100), Fin(100)>>)
GoodWEVN == MkSeq(<<Fin(500), Fin(-500), Fin(200), Fin(100), Fin(100)>>)
GoodPEVN == MkSeq(<<Fin(100000), Fin(200), Fin(100), Fin(100)>>)

\* A subset that passes every check under the default options and under
\* --check-oberrs and --kind adpsfc (pressures in hPa).
BaseFld ==
    [XOB |-> Fin(-4500), YOB |-> Fin(-2300), DHR |-> Fin(0),
     TYP |-> Fin(12000), ELV |-> Fin(76000), SAID |-> Fin(5500),
     T29 |-> Fin(1100),
     TOB |-> Fin(28000), POB |-> Fin(100000), ZOB |-> Fin(10000),
     UOB |-> Fin(500), VOB |-> Fin(-500), QOB |-> Fin(1),
     TOE |-> Fin(100), WOE |-> Fin(150), POE |-> Fin(110),
     ZOE |-> Fin(2000), QOE |-> Fin(1),
     PRSS |-> Fin(100000), PWO |-> Fin(2000), CAT |-> Fin(100)]
BaseSeq == [s \in SeqNames |-> IF s = "TEVN" THEN GoodTEVN ELSE NoSeq]
Base == [fld |-> BaseFld, seq |-> BaseSeq]

\* rec before the first load_subset()
NoRec == [fld |-> [f \in Fields |-> Absent], seq |-> [s \in SeqNames |-> NoSeq]]

With(r, f, x) == [r EXCEPT !.fld[f] = x]
WithSeq(r, s, a) == [r EXCEPT !.seq[s] = a]

\* File "mix": subsets in which no check fails, or one, or all.
MixFaults == {"hdr", "time", "evn", "tob", "qob", "toe", "prss", "pwo"}
Mixed(S) ==
    [fld |->
       [f \in Fields |->
          IF f = "T29" /\ "hdr" \in S THEN Absent
          ELSE IF f = "DHR" /\ "time" \in S THEN Fin(400)
          ELSE IF f = "TOB" /\ "tob" \in S THEN Fin(50000)
          ELSE IF f = "QOB" /\ "qob" \in S THEN Fin(6)
          ELSE IF f = "TOE" /\ "toe" \in S THEN Absent
          ELSE IF f = "PRSS" /\ "prss" \in S THEN Absent
          ELSE IF f = "PWO" /\ "pwo" \in S THEN Fin(10001)
          ELSE BaseFld[f]],
     seq |->
       [s \in SeqNames |->
          IF s = "TEVN" /\ "evn" \in S
          THEN MkSeq(<<Fin(28000), NaN, Fin(100), Fin(100)>>)
          ELSE BaseSeq[s]]]
MixRecords ==
    {Mixed(S) : S \in {T \in SUBSET MixFaults :
                          \/ Cardinality(T) <= 1
                          \/ T = {"tob", "qob"}
                          \/ T = MixFaults}}

\* The two states of "every other field" the files below combine with the
\* fields they vary: all good, and every check but the header's failing.
Others == {Base, Mixed(MixFaults \ {"hdr"})}

\* File "hdr": none, one, two or all of the seven REQ_HDR mnemonics absent.
HdrFields == {"XOB", "YOB", "DHR", "TYP", "ELV", "SAID", "T29"}
WithoutFields(r, S) ==
    [r EXCEPT !.fld = [f \in Fields |-> IF f \in S THEN Absent ELSE r.fld[f]]]
HdrRecords ==
    {WithoutFields(o, S) :
       o \in Others,
       S \in {T \in SUBSET HdrFields : Cardinality(T) <= 2 \/ T = HdrFields}}

\* File "time": DHR absent, not finite, inside, on and outside the windows
\* of 3 h and 5 h.
DhrValues ==
    {Absent, NaN, PosInf, NegInf}
    \cup {Fin(x) : x \in {0, 299, 300, 301, 400, 500, 501}}
    \cup {Fin(-x) : x \in {299, 300, 301, 400, 500, 501}}
TimeRecords == {With(o, "DHR", x) : o \in Others, x \in DhrValues}

\* File "evn": TEVN and WEVN absent, present with a finite quality mark, with
\* one that is nan or inf, or without the row of the quality mark; at most
\* one of PEVN, ZEVN, QEVN present.
TevnValues ==
    {NoSeq, GoodTEVN,
     MkSeq(<<Fin(28000), NaN, Fin(100), Fin(100)>>),
     MkSeq(<<Fin(28000), PosInf, Fin(100), Fin(100)>>),
     MkSeq(<<Fin(28000)>>)}
WevnValues ==
    {NoSeq, GoodWEVN,
     MkSeq(<<Fin(500), Fin(-500), NaN, Fin(100), Fin(100)>>),
     MkSeq(<<Fin(500), NaN, Fin(200), Fin(100), Fin(100)>>),
     MkSeq(<<Fin(500), Fin(-500)>>)}
EvnRecords ==
    {[fld |-> BaseFld,
      seq |-> [s \in SeqNames |->
                 IF s = "TEVN" THEN t
                 ELSE IF s = "WEVN" THEN w
                 ELSE IF s \in P THEN GoodPEVN ELSE NoSeq]] :
       t \in TevnValues, w \in WevnValues,
       P \in {{}, {"PEVN"}, {"ZEVN"}, {"QEVN"}}}

\* File "units": one of the eight variables absent, nan, on a bound of RANGE
\* or just outside it (TOB: also inf and 500 K; POB: around the bounds in hPa,
\* cb and Pa); and subsets in which the first k variables are out of range.
UnitVarSet == {UNIT_VARS[i] : i \in 1..Len(UNIT_VARS)}
EdgeValues(nm) ==
    {Absent, NaN,
     Fin(RANGE[nm][1] - 1), Fin(RANGE[nm][1]),
     Fin(RANGE[nm][2]), Fin(RANGE[nm][2] + 1)}
PobValues ==
    {Fin(x) : x \in {9, 10, 11000, 11001, 9999, 10000, 11000000, 11000001}}
OutOfRange(nm) == Fin(RANGE[nm][2] + 1)
FirstBad(k) ==
    [Base EXCEPT !.fld =
       [f \in Fields |->
          IF \E i \in 1..k : UNIT_VARS[i] = f THEN OutOfRange(f)
          ELSE BaseFld[f]]]
UnitsRecords ==
    UNION {{With(Base, nm, x) : x \in EdgeValues(nm)} : nm \in UnitVarSet}
    \cup {With(Base, "POB", x) : x \in PobValues}
    \cup {With(Base, "TOB", x) : x \in {PosInf, NegInf, Fin(50000)}}
    \cup {FirstBad(k) : k \in {0, 2, 3, Len(UNIT_VARS)}}

\* File "oberrs": for each pair, the error absent with the observation
\* present, both absent, and the observation absent alone; for the wind pair
\* also WOE absent with only UOB or only VOB left; every error absent; every
\* error and observation absent; an error that is nan; an observation that
\* is nan without its error.
ObsOfErr ==
    [TOE |-> {"TOB"}, WOE |-> {"UOB", "VOB"}, POE |-> {"POB"},
     ZOE |-> {"ZOB"}, QOE |-> {"QOB"}]
ErrFields == {"TOE", "WOE", "POE", "ZOE", "QOE"}
ObsFields == {"TOB", "UOB", "VOB", "POB", "ZOB", "QOB"}
OberrRecords ==
    {Base, WithoutFields(Base, ErrFields),
     WithoutFields(Base, ErrFields \cup ObsFields),
     WithoutFields(Base, {"WOE", "UOB"}), WithoutFields(Base, {"WOE", "VOB"}),
     With(Base, "TOE", NaN), With(WithoutFields(Base, {"TOE"}), "TOB", NaN)}
    \cup UNION {{WithoutFields(Base, {e}),
                 WithoutFields(Base, {e} \cup ObsOfErr[e]),
                 WithoutFields(Base, ObsOfErr[e])} : e \in ErrFields}

\* File "gate": the header and the final event each good or failing, with
\* PRSS, PWO and CAT all good, one of them absent or out of range, or all
\* three absent.
BadTEVN == MkSeq(<<Fin(28000), NaN, Fin(100), Fin(100)>>)
AuxStates ==
    {Base, WithoutFields(Base, {"PRSS"}), With(Base, "PWO", Fin(10001)),
     WithoutFields(Base, {"CAT"}), WithoutFields(Base, {"PRSS", "PWO", "CAT"})}
GateRecords ==
    {WithSeq(WithoutFields(a, H), "TEVN", t) :
       a \in AuxStates, H \in {{}, {"T29"}}, t \in {GoodTEVN, BadTEVN}}

\* File "sfc": header and final event good; PRSS absent, not finite, or on
\* and just outside 500 and 1085 hPa written in hPa, cb and Pa; PWO absent,
\* nan, or on and just outside 0 and 100; CAT absent or nan; and subsets in
\* which several of these hold at once.
PrssValues ==
    {Absent, NaN, PosInf}
    \cup {Fin(x) : x \in {49999, 50000, 108500, 108501}}
    \cup {Fin(x) : x \in {4999, 5000, 10850, 10851}}
    \cup {Fin(x) : x \in {4999999, 5000000, 10850000, 10850001}}
PwoValues == {Absent, NaN, Fin(-1), Fin(0), Fin(10000), Fin(10001)}
SfcRecords ==
    {With(Base, "PRSS", x) : x \in PrssValues}
    \cup {With(Base, "PWO", x) : x \in PwoValues}
    \cup {With(Base, "CAT", x) : x \in {Absent, NaN}}
    \cup {With(With(Base, "PRSS", Fin(40000)), "PWO", Fin(20000)),
          With(WithoutFields(Base, {"PRSS", "CAT"}), "PWO", Fin(20000))}

\* File "auto": POB and PRSS both 1000 hPa, 100 cb or 100000 Pa; POB alone
\* at 20 (inside the window of cb only) or 2000 (inside no window); POB that
\* is nan, zero or negative with PRSS that is inf or absent.
AutoRecords ==
    {Base,
     With(With(Base, "POB", Fin(10000)), "PRSS", Fin(10000)),
     With(With(Base, "POB", Fin(10000000)), "PRSS", Fin(10000000)),
     With(WithoutFields(Base, {"PRSS"}), "POB", Fin(2000)),
     With(WithoutFields(Base, {"PRSS"}), "POB", Fin(200000)),
     With(WithoutFields(Base, {"PRSS"}), "POB", NaN),
     With(With(Base, "POB", Fin(0)), "PRSS", PosInf),
     With(WithoutFields(Base, {"PRSS"}), "POB", Fin(-100000))}

\* File "nonfinite": one field of a good subset nan, inf or absent.
NonFiniteRecords ==
    {Base}
    \cup {With(Base, f, x) : f \in Fields, x \in {NaN, PosInf, Absent}}

\* File "where": a subset that fails nothing, the header, the time window,
\* the final event, the units on two variables, or everything.
WhereRecords ==
    {Base, Mixed({"hdr"}), Mixed({"time"}), Mixed({"evn"}), FirstBad(2),
     Mixed(MixFaults)}

\* File "csv": messages of one category under both representations of its
\* msg_type and of a second category; subsets that pass, that fail the
\* units check on one and on two variables, and that fail other checks.
CsvTypes ==
    {[rep |-> "str", txt |-> "ADPUPA"], [rep |-> "bytes", txt |-> "ADPUPA"],
     [rep |-> "str", txt |-> "ADPSFC"]}
CsvRecords ==
    {Base, Mixed({"qob"}), Mixed({"tob", "qob"}), Mixed({"hdr", "time"}),
     Mixed({"toe", "prss"})}

\* File "bufr", an input of the converter: every DHR state (absent, 0.0,
\* 1.5 h, nan) with every state of the date fields (03:30 of the day of
\* the cycle; YEAR absent; MNTH 13; HOUR nan) and of the position (XOB and
\* YOB present, XOB absent, YOB absent).
BufrFields ==
    {"XOB", "YOB", "DHR", "YEAR", "MNTH", "DAYS", "HOUR", "MINU", "SECO",
     "TYP", "T29", "ELV", "SAID", "TOB", "TQM", "TPC", "TRC", "UOB", "VOB",
     "WQM", "WPC", "WRC", "POB", "PQM", "PPC", "PRC", "ZOB", "ZQM", "ZPC",
     "ZRC", "QOB", "QQM", "QPC", "QRC", "PRSS", "PWO", "CAT"}
BufrTypes == {PyBytes("ADPSFC"), PyBytes("ADPUPA")}
BufrBaseFld ==
    [f \in BufrFields |->
       CASE f = "XOB" -> Fin(-4500)
         [] f = "YOB" -> Fin(-2300)
         [] f = "DHR" -> Fin(150)
         [] f = "YEAR" -> Fin(202500)
         [] f = "MNTH" -> Fin(900)
         [] f = "DAYS" -> Fin(1100)
         [] f = "HOUR" -> Fin(300)
         [] f = "MINU" -> Fin(3000)
         [] f = "TYP" -> Fin(18100)
         [] f = "ELV" -> Fin(76000)
         [] f = "TOB" -> Fin(28000)
         [] f = "TQM" -> Fin(200)
         [] f = "UOB" -> Fin(500)
         [] f = "POB" -> Fin(100000)
         [] f = "PRSS" -> Fin(101300)
         [] f = "CAT" -> Fin(0)
         [] OTHER -> Absent]
DhrStates == {Absent, Fin(0), Fin(150), NaN}
DateStates == {"valid", "no year", "month 13", "hour nan"}
PositionStates == {"both", "no xob", "no yob"}
BufrRecord(dhr, date, position) ==
    [fld |->
       [f \in BufrFields |->
          IF f = "DHR" THEN dhr
          ELSE IF f = "YEAR" /\ date = "no year" THEN Absent
          ELSE IF f = "MNTH" /\ date = "month 13" THEN Fin(1300)
          ELSE IF f = "HOUR" /\ date = "hour nan" THEN NaN
          ELSE IF f = "XOB" /\ position = "no xob" THEN Absent
          ELSE IF f = "YOB" /\ position = "no yob" THEN Absent
          ELSE BufrBaseFld[f]]]
BufrRecords ==
    {BufrRecord(dhr, date, position) :
        dhr \in DhrStates, date \in DateStates, position \in PositionStates}
\* File "bufr_small": a subset written as it is, two that need the computed
\* DHR and one without position.
BufrSmall ==
    {BufrRecord(Fin(150), "valid", "both"), BufrRecord(Absent, "valid", "both"),
     BufrRecord(Fin(0), "no year", "both"),
     BufrRecord(Fin(150), "valid", "no xob")}

\* File "order": subsets that fail no check, every check but the platform's
\* (which is made only when header and final event pass) with two
\* variables out of range, every check but the header's and the final
\* event's with all eight, the units check alone on all eight variables,
\* and three checks that are not neighbours.
AllUnitsBad(r) ==
    [r EXCEPT !.fld =
       [f \in Fields |-> IF f \in UnitVarSet THEN OutOfRange(f)
                         ELSE r.fld[f]]]
OrderRecords ==
    {Base, Mixed(MixFaults), AllUnitsBad(Mixed(MixFaults \ {"hdr", "evn"})),
     FirstBad(8),
     Mixed({"time", "toe", "prss"})}

\* File "progress": subsets that pass, that fail the time window and the
\* units check, and that fail the observation-error and platform checks.
ProgressRecords == {Base, Mixed({"time", "tob"}), Mixed({"toe", "prss"})}

\* The msg_types a file may hold, by the file read (the path argument): the
\* files that vary one check's fields hold messages of one type.
FileTypes(p) ==
    IF p \in {"mix", "where", "order", "progress"} THEN MsgTypes
    ELSE IF p = "csv" THEN CsvTypes
    ELSE {[rep |-> "str", txt |-> "ADPSFC"]}

\* The subsets a file may hold, by the file read.
FileRecords(p) ==
    IF p = "mix" THEN MixRecords
    ELSE IF p = "hdr" THEN HdrRecords
    ELSE IF p = "time" THEN TimeRecords
    ELSE IF p = "evn" THEN EvnRecords
    ELSE IF p = "units" THEN UnitsRecords
    ELSE IF p = "oberrs" THEN OberrRecords
    ELSE IF p = "gate" THEN GateRecords
    ELSE IF p = "sfc" THEN SfcRecords
    ELSE IF p = "auto" THEN AutoRecords
    ELSE IF p = "nonfinite" THEN NonFiniteRecords
    ELSE IF p = "where" THEN WhereRecords
    ELSE IF p = "csv" THEN CsvRecords
    ELSE IF p = "bufr" THEN BufrRecords
    ELSE IF p = "bufr_small" THEN BufrSmall
    ELSE IF p = "order" THEN OrderRecords
    ELSE IF p = "progress" THEN ProgressRecords
    ELSE {Base}

\* ------------------------------------------------------------------ state
VARIABLES
    path, twind_h, check_oberrs, kind, pressure_unit, where_max,
    pc, pressure_unit_used, pscale, mtyp, rec,
    nmsg, nsub, bad_hdr, no_events, time_oow, bad_units, miss_oberrs,
    miss_adpsfc,
    types, per_type_total, per_type_approved, per_type_bad_hdr,
    per_type_no_events, per_type_time_oow, per_type_bad_units,
    per_type_miss_oberrs, per_type_miss_adpsfc,
    where_hdr, where_events, where_time, where_units,
    fail_records, units_by_var_and_type, status,
    max_samples, vals, cnt, smsg, ssub,
    csv_out, report_csv, vars_csv, progress, progress_every, quiet,
    tqdm_installed, handle, pbar, printed, csv_table, report_table,
    vars_table, recording, hist,
    idate, force_typ, force_t29, blib_on_error, inputs_read, in_msgs,
    in_subs, msgtype, curr, nout, out_state, out_msg, out_file, msg_calls,
    ret

\* _autodetect_pressure_unit: its parameter max_samples, its locals vals and
\* cnt, and the calls of advance() and of load_subset() that gave its handle
\* a message or a subset.  The model keeps them after the function returns.
sampling == <<max_samples, vals, cnt, smsg, ssub>>
options == <<path, twind_h, check_oberrs, kind, pressure_unit, where_max>>
counters ==
    <<nmsg, nsub, bad_hdr, no_events, time_oow, bad_units, miss_oberrs,
      miss_adpsfc>>
per_type ==
    <<types, per_type_total, per_type_approved, per_type_bad_hdr,
      per_type_no_events, per_type_time_oow, per_type_bad_units,
      per_type_miss_oberrs, per_type_miss_adpsfc>>
wheres == <<where_hdr, where_events, where_time, where_units>>
\* The parameters csv_out, report_csv and vars_csv (TRUE for a path given),
\* progress_every and quiet, and whether tqdm can be imported.
reporting ==
    <<csv_out, report_csv, vars_csv, progress_every, quiet, tqdm_installed>>
\* The parameter progress, which check_file rebinds, the progress bar and
\* the lines printed.
console == <<progress, pbar, printed>>
\* The handle b of the main pass and the three CSV files.
files == <<handle, csv_table, report_table, vars_table>>
\* The converter prepbufr_cptec_gsi.py.
\* Its options idate, force_typ and force_t29 (kind is shared with
\* check_file), what the build of the library does with a call it cannot
\* serve, the input files opened and the calls of advance() and
\* load_subset() that gave a message or a subset, the locals msgtype, curr
\* and nout of process, the output unit L_OUT (connected or not, the type
\* of the message open on it, the subsets written), the message calls
\* (closmg, openmb) of the last step and the last return of write_subset.
conv ==
    <<idate, force_typ, force_t29, blib_on_error, inputs_read, in_msgs,
      in_subs, msgtype, curr, nout, out_state, out_msg, out_file, msg_calls,
      ret>>
\* The stream the main pass was given so far, message by message and
\* subset by subset; it is kept only when recording is set (neither is a
\* variable of the program).
stream == <<recording, hist>>
\* What a step of the sampling pass or of the parser leaves alone.
aside == <<reporting, console, files, conv, stream>>
vars ==
    <<options, pc, pressure_unit_used, pscale, mtyp, rec, counters, per_type,
      wheres, fail_records, units_by_var_and_type, status, sampling,
      reporting, console, files, conv, stream>>

\* A file not written, a progress bar not made.
NotWritten == [written |-> FALSE, rows |-> <<>>]
NoBar == [total |-> -1, n |-> 0, closed |-> FALSE]

\* The options are the caller's and nothing is read yet; pc is "cli" when
\* main is entered, "start" when check_file is.
InitCheck(p, twinds, oberrs, kinds, units, caps, pcs, samples) ==
    /\ path = p
    /\ twind_h \in twinds
    /\ check_oberrs \in oberrs
    /\ kind \in kinds
    /\ pressure_unit \in units
    /\ where_max \in caps
    /\ pc \in pcs
    /\ max_samples \in samples
    /\ vals = <<>> /\ cnt = 0 /\ smsg = 0 /\ ssub = 0
    /\ pressure_unit_used = pressure_unit
    /\ pscale = pressure_scale("hpa")
    /\ mtyp = NoMsg
    /\ rec = NoRec
    /\ nmsg = 0 /\ nsub = 0
    /\ bad_hdr = 0 /\ no_events = 0 /\ time_oow = 0 /\ bad_units = 0
    /\ miss_oberrs = 0 /\ miss_adpsfc = 0
    /\ types = <<>>
    /\ per_type_total = <<>> /\ per_type_approved = <<>>
    /\ per_type_bad_hdr = <<>> /\ per_type_no_events = <<>>
    /\ per_type_time_oow = <<>> /\ per_type_bad_units = <<>>
    /\ per_type_miss_oberrs = <<>> /\ per_type_miss_adpsfc = <<>>
    /\ where_hdr = <<>> /\ where_events = <<>>
    /\ where_time = <<>> /\ where_units = <<>>
    /\ fail_records = <<>>
    /\ units_by_var_and_type = <<>>
    /\ status = "unset"

\* The reporting options are the caller's; no handle, bar or file yet.
InitRun(outs, progresses, everys, quiets, tqdms) ==
    /\ csv_out \in outs /\ report_csv \in outs /\ vars_csv \in outs
    /\ progress \in progresses
    /\ progress_every \in everys
    /\ quiet \in quiets
    /\ tqdm_installed \in tqdms
    /\ handle = "unopened"
    /\ pbar = NoBar
    /\ printed = <<>>
    /\ csv_table = NotWritten
    /\ report_table = NotWritten
    /\ vars_table = NotWritten

\* Nothing is read yet.
InitStream(on) ==
    /\ recording = on
    /\ hist = <<>>

\* process entered, or not run: nothing is open and nothing written.
InitConv(idates, typs, t29s, modes) ==
    /\ idate \in idates
    /\ force_typ \in typs
    /\ force_t29 \in t29s
    /\ blib_on_error \in modes
    /\ inputs_read = 0 /\ in_msgs = 0 /\ in_subs = 0
    /\ msgtype = PyNone
    /\ curr = PyNone
    /\ nout = 0
    /\ out_state = "unopened"
    /\ out_msg = PyNone
    /\ out_file = <<>>
    /\ msg_calls = <<>>
    /\ ret = FALSE

\* The converter is not run.
InitNoConv == InitConv({IDATE}, {Absent}, {Absent}, {"abort"})

\* check_file with the three CSV paths given and the progress options at
\* their defaults.
InitOpts(p, twinds, oberrs, kinds, units, caps, pcs, samples) ==
    /\ InitCheck(p, twinds, oberrs, kinds, units, caps, pcs, samples)
    /\ InitRun({TRUE}, {"counter"}, {DEFAULT_PROGRESS_EVERY}, {FALSE},
               {TRUE})
    /\ InitNoConv
    /\ InitStream(FALSE)

\* check_file entered.
InitWith(p, twinds, oberrs, kinds, units, caps) ==
    InitOpts(p, twinds, oberrs, kinds, units, caps, {"start"},
             {PRESSURE_AUTODETECT_SAMPLES})

Init ==
    InitWith("mix", {DEFAULT_TWIND_H}, BOOLEAN, {"none", "adpsfc", "adpupa"},
             {"hpa"}, {0, 1})

\* ------------------------------------------------------------------ actions
\* One entry of hist: a message of type m started, or subset r of a message
\* of type m loaded.
Given(what, m, r) == [what |-> what, m |-> m, r |-> r]

\* A line printed: the stream, what it reports and the number in it.
Line(to, what, n) == [stream |-> to, what |-> what, n |-> n]

\* check_file, the set-up of the progress display: with progress "bar" and
\* not quiet, a missing tqdm turns the mode into "counter" with a warning;
\* otherwise count_subsets reads the file once for the total (the sum of
\* the messages' nsubsets) and the bar is made.
ProgressSetup ==
    IF ~quiet /\ progress = "bar"
    THEN IF ~tqdm_installed
         THEN /\ progress' = "counter"
              /\ printed' = Append(printed, Line("stderr", "no tqdm", 0))
              /\ pbar' = pbar
         ELSE /\ \E total_subsets \in 0..MaxRecs :
                    pbar' = [total |-> total_subsets, n |-> 0,
                             closed |-> FALSE]
              /\ UNCHANGED <<progress, printed>>
    ELSE UNCHANGED <<progress, pbar, printed>>

\* The progress report of one subset, the nsub-th: the bar advances, or in
\* mode "counter" a line is printed every progress_every subsets.
progress_bar(bar, q) ==
    IF ~q /\ bar # NoBar THEN [bar EXCEPT !.n = @ + 1] ELSE bar
progress_lines(lines, bar, q, mode, every, n) ==
    IF ~q /\ bar = NoBar /\ mode = "counter" /\ every > 0 /\ n % every = 0
    THEN Append(lines, Line("stdout", "subsets", n))
    ELSE lines

\* check_file up to the main loop, for a pressure_unit other than "auto": the
\* unit is resolved (a unit outside PRESSURE_UNITS becomes the default) and
\* the scale fixed.
Start ==
    /\ pc = "start"
    /\ pressure_unit # "auto"
    /\ ProgressSetup
    /\ pressure_unit_used' =
          IF pressure_unit \notin PRESSURE_UNITS THEN DEFAULT_PRESSURE_UNIT
          ELSE pressure_unit
    /\ pscale' = pressure_scale(pressure_unit_used')
    /\ handle' = "open"
    /\ pc' = "main"
    /\ UNCHANGED <<sampling, options, mtyp, rec, counters, per_type,
                   wheres, fail_records, units_by_var_and_type, status,
                   reporting, csv_table, report_table, vars_table, conv,
                   stream>>

\* advance() == 0: a message of type m starts.
Advance(m) ==
    /\ pc = "main"
    /\ nmsg < MaxMsgs
    /\ nmsg' = nmsg + 1
    /\ mtyp' = m
    /\ hist' = IF recording THEN Append(hist, Given("msg", m, NoRec))
               ELSE hist
    /\ types' = init_key(types, m)
    /\ IF m \notin DOMAIN per_type_total
       THEN /\ per_type_total' = per_type_total @@ (m :> 0)
            /\ per_type_approved' = (m :> 0) @@ per_type_approved
            /\ per_type_bad_hdr' = (m :> 0) @@ per_type_bad_hdr
            /\ per_type_no_events' = (m :> 0) @@ per_type_no_events
            /\ per_type_time_oow' = (m :> 0) @@ per_type_time_oow
            /\ per_type_bad_units' = (m :> 0) @@ per_type_bad_units
            /\ per_type_miss_oberrs' = (m :> 0) @@ per_type_miss_oberrs
            /\ per_type_miss_adpsfc' = (m :> 0) @@ per_type_miss_adpsfc
       ELSE UNCHANGED <<per_type_total, per_type_approved, per_type_bad_hdr,
                        per_type_no_events, per_type_time_oow,
                        per_type_bad_units, per_type_miss_oberrs,
                        per_type_miss_adpsfc>>
    /\ UNCHANGED <<sampling, options, pc, pressure_unit_used, pscale, rec,
                   nsub, bad_hdr, no_events, time_oow, bad_units, miss_oberrs,
                   miss_adpsfc, wheres, fail_records, units_by_var_and_type,
                   status, reporting, console, files, conv, recording>>

\* Faulty variants of inc: d[k] = by, and a step of 2.
inc_overwrite(d, k) ==
    IF k \in DOMAIN d THEN [d EXCEPT ![k] = 1] ELSE d @@ (k :> 1)
inc_twice(d, k) ==
    IF k \in DOMAIN d THEN [d EXCEPT ![k] = @ + 2] ELSE d @@ (k :> 2)

\* Faulty variant of inc: nothing is counted in a quiet run.
inc_unless_quiet(d, k) ==
    IF quiet THEN d
    ELSE IF k \in DOMAIN d THEN [d EXCEPT ![k] = @ + 1] ELSE d @@ (k :> 1)

\* inc (closure of check_file): d[k] = d.get(k, 0) + 1
inc(d, k) ==
    IF k \in DOMAIN d THEN [d EXCEPT ![k] = @ + 1] ELSE d @@ (k :> 1)

\* Faulty variant of count_units: only the first variable of the subset is
\* counted.
count_units_first_only(d, txt, vs) ==
    IF vs = <<>> THEN d ELSE inc(d, <<txt, Head(vs)>>)

RECURSIVE count_units(_, _, _)
\* units_by_var_and_type[(_b2s(mtyp), nm)] += 1 for every nm of vs
count_units(d, txt, vs) ==
    IF vs = <<>> THEN d
    ELSE count_units(inc(d, <<txt, Head(vs)>>), txt, Tail(vs))

RECURSIVE where_units_add(_, _, _, _, _)
\* the where_units.append of the units loop, for every nm of vs
where_units_add(lst, cap, m, r, vs) ==
    IF vs = <<>> THEN lst
    ELSE where_units_add(
            where_add(lst, cap,
                      fmt_where(m, r.idx, r.xob, r.yob, r.dhr, Head(vs))),
            cap, m, r, Tail(vs))

\* Faulty variant of the FailRecords of one subset: none for a subset without
\* final event.
subset_fail_records_no_events(r, m, idx, twind, check_on, knd, ps) ==
    (IF subset_bad_hdr(r)
     THEN <<FailRecord(b2s(m), idx, FAIL_HDR, NoVar)>> ELSE <<>>)
    \o (IF subset_time_oow(r, twind)
        THEN <<FailRecord(b2s(m), idx, FAIL_TIME, NoVar)>> ELSE <<>>)
    \o [i \in 1..Len(bad_unit_vars(r, ps)) |->
          FailRecord(b2s(m), idx, FAIL_UNITS, bad_unit_vars(r, ps)[i])]
    \o (IF subset_miss_oberrs(r, check_on)
        THEN <<FailRecord(b2s(m), idx, FAIL_OBERRS, NoVar)>> ELSE <<>>)
    \o (IF subset_miss_adpsfc(r, knd, ps)
        THEN <<FailRecord(b2s(m), idx, FAIL_ADPSFC, NoVar)>> ELSE <<>>)

\* Faulty variant of the FailRecords of one subset: the units check comes
\* before the time window.
subset_fail_records_units_first(r, m, idx, twind, check_on, knd, ps) ==
    (IF subset_bad_hdr(r)
     THEN <<FailRecord(b2s(m), idx, FAIL_HDR, NoVar)>> ELSE <<>>)
    \o [i \in 1..Len(bad_unit_vars(r, ps)) |->
          FailRecord(b2s(m), idx, FAIL_UNITS, bad_unit_vars(r, ps)[i])]
    \o (IF subset_time_oow(r, twind)
        THEN <<FailRecord(b2s(m), idx, FAIL_TIME, NoVar)>> ELSE <<>>)
    \o (IF subset_no_events(r)
        THEN <<FailRecord(b2s(m), idx, FAIL_EVENTS, NoVar)>> ELSE <<>>)
    \o (IF subset_miss_oberrs(r, check_on)
        THEN <<FailRecord(b2s(m), idx, FAIL_OBERRS, NoVar)>> ELSE <<>>)
    \o (IF subset_miss_adpsfc(r, knd, ps)
        THEN <<FailRecord(b2s(m), idx, FAIL_ADPSFC, NoVar)>> ELSE <<>>)

\* Faulty variant of subset_fail_records: the units check appends nothing.
subset_fail_records_no_units(r, m, idx, twind, check_on, knd, ps) ==
    (IF subset_bad_hdr(r)
     THEN <<FailRecord(b2s(m), idx, FAIL_HDR, NoVar)>> ELSE <<>>)
    \o (IF subset_time_oow(r, twind)
        THEN <<FailRecord(b2s(m), idx, FAIL_TIME, NoVar)>> ELSE <<>>)
    \o (IF subset_no_events(r)
        THEN <<FailRecord(b2s(m), idx, FAIL_EVENTS, NoVar)>> ELSE <<>>)
    \o (IF subset_miss_oberrs(r, check_on)
        THEN <<FailRecord(b2s(m), idx, FAIL_OBERRS, NoVar)>> ELSE <<>>)
    \o (IF subset_miss_adpsfc(r, knd, ps)
        THEN <<FailRecord(b2s(m), idx, FAIL_ADPSFC, NoVar)>> ELSE <<>>)

\* The FailRecords one subset appends, in the order of the checks.
subset_fail_records(r, m, idx, twind, check_on, knd, ps) ==
    (IF subset_bad_hdr(r)
     THEN <<FailRecord(b2s(m), idx, FAIL_HDR, NoVar)>> ELSE <<>>)
    \o (IF subset_time_oow(r, twind)
        THEN <<FailRecord(b2s(m), idx, FAIL_TIME, NoVar)>> ELSE <<>>)
    \o (IF subset_no_events(r)
        THEN <<FailRecord(b2s(m), idx, FAIL_EVENTS, NoVar)>> ELSE <<>>)
    \o [i \in 1..Len(bad_unit_vars(r, ps)) |->
          FailRecord(b2s(m), idx, FAIL_UNITS, bad_unit_vars(r, ps)[i])]
    \o (IF subset_miss_oberrs(r, check_on)
        THEN <<FailRecord(b2s(m), idx, FAIL_OBERRS, NoVar)>> ELSE <<>>)
    \o (IF subset_miss_adpsfc(r, knd, ps)
        THEN <<FailRecord(b2s(m), idx, FAIL_ADPSFC, NoVar)>> ELSE <<>>)

\* load_subset() == 0: one turn of the inner loop on subset r.
LoadSubset(r) ==
    /\ pc = "main"
    /\ mtyp # NoMsg
    /\ nsub < MaxRecs
    /\ LET idx == nsub + 1
           xob == read_scalar(r, "XOB")
           yob == read_scalar(r, "YOB")
           dhr_dbg == read_scalar(r, "DHR")
           loc == [idx |-> idx, xob |-> xob, yob |-> yob, dhr |-> dhr_dbg]
           entry == fmt_where(mtyp, idx, xob, yob, dhr_dbg, "")
           hdr == subset_bad_hdr(r)
           tim == subset_time_oow(r, twind_h)
           evn == subset_no_events(r)
           uvars == bad_unit_vars(r, pscale)
           obe == subset_miss_oberrs(r, check_oberrs)
           sfc == subset_miss_adpsfc(r, kind, pscale)
       IN /\ rec' = r
          /\ nsub' = idx
          /\ types' = inc(types, mtyp)
          /\ per_type_total' = inc(per_type_total, mtyp)
          /\ bad_hdr' = IF hdr THEN bad_hdr + 1 ELSE bad_hdr
          /\ per_type_bad_hdr' =
                IF hdr THEN inc(per_type_bad_hdr, mtyp) ELSE per_type_bad_hdr
          /\ where_hdr' =
                IF hdr THEN where_add(where_hdr, where_max, entry)
                ELSE where_hdr
          /\ time_oow' = IF tim THEN time_oow + 1 ELSE time_oow
          /\ per_type_time_oow' =
                IF tim THEN inc(per_type_time_oow, mtyp)
                ELSE per_type_time_oow
          /\ where_time' =
                IF tim THEN where_add(where_time, where_max, entry)
                ELSE where_time
          /\ no_events' = IF evn THEN no_events + 1 ELSE no_events
          /\ per_type_no_events' =
                IF evn THEN inc(per_type_no_events, mtyp)
                ELSE per_type_no_events
          /\ where_events' =
                IF evn THEN where_add(where_events, where_max, entry)
                ELSE where_events
          /\ units_by_var_and_type' =
                count_units(units_by_var_and_type, b2s(mtyp), uvars)
          /\ where_units' =
                where_units_add(where_units, where_max, mtyp, loc, uvars)
          /\ bad_units' = IF Len(uvars) > 0 THEN bad_units + 1 ELSE bad_units
          /\ per_type_bad_units' =
                IF Len(uvars) > 0 THEN inc(per_type_bad_units, mtyp)
                ELSE per_type_bad_units
          /\ miss_oberrs' = IF obe THEN miss_oberrs + 1 ELSE miss_oberrs
          /\ per_type_miss_oberrs' =
                IF obe THEN inc(per_type_miss_oberrs, mtyp)
                ELSE per_type_miss_oberrs
          /\ miss_adpsfc' = IF sfc THEN miss_adpsfc + 1 ELSE miss_adpsfc
          /\ per_type_miss_adpsfc' =
                IF sfc THEN inc(per_type_miss_adpsfc, mtyp)
                ELSE per_type_miss_adpsfc
          /\ fail_records' =
                fail_records
                \o subset_fail_records(r, mtyp, idx, twind_h, check_oberrs,
                                       kind, pscale)
          /\ per_type_approved' =
                IF subset_approved(r, twind_h, check_oberrs, kind, pscale)
                THEN inc(per_type_approved, mtyp)
                ELSE per_type_approved
          /\ hist' = IF recording THEN Append(hist, Given("sub", mtyp, r))
                     ELSE hist
          /\ pbar' = progress_bar(pbar, quiet)
          /\ printed' = progress_lines(printed, pbar, quiet, progress,
                                       progress_every, idx)
    /\ UNCHANGED <<sampling, options, pc, pressure_unit_used, pscale, mtyp,
                   nmsg, status, reporting, progress, files, conv,
                   recording>>

\* Faulty variant of the status: miss_adpsfc is left out.
final_status_ignores_adpsfc(hdr, evn, tim, units, obe, sfc, check_on, knd) ==
    IF /\ hdr = 0 /\ evn = 0 /\ tim = 0 /\ units = 0
       /\ (IF check_on THEN obe ELSE 0) = 0
    THEN "PASSOU" ELSE "ATENCAO"

\* The status expression after the main loop.
final_status(hdr, evn, tim, units, obe, sfc, check_on, knd) ==
    IF /\ hdr = 0 /\ evn = 0 /\ tim = 0 /\ units = 0
       /\ (IF check_on THEN obe ELSE 0) = 0
       /\ (IF knd = "adpsfc" THEN sfc ELSE 0) = 0
    THEN "PASSOU" ELSE "ATENCAO"

\* ------------------------------------------------------------ CSV writers
\* The order of the texts of the model as Python orders str and bytes (by
\* code point).
TextOrder ==
    <<"ADPSFC", "ADPUPA", "POB", "QOB", "TOB", "UOB", "VOB", "XOB", "YOB",
      "ZOB">>
text_rank(t) == CHOOSE i \in 1..Len(TextOrder) : TextOrder[i] = t

RECURSIVE SetToSeq(_)
SetToSeq(S) ==
    IF S = {} THEN <<>>
    ELSE LET x == CHOOSE y \in S : TRUE IN <<x>> \o SetToSeq(S \ {x})

\* d.get(k, 0)
get(d, k) == IF k \in DOMAIN d THEN d[k] ELSE 0

\* The sort key of _write_csv, (isinstance(x, bytes), x): the str keys come
\* first, each group in the order of its text.
csv_key_lt(a, b) ==
    IF (a.rep = "bytes") # (b.rep = "bytes") THEN b.rep = "bytes"
    ELSE text_rank(a.txt) < text_rank(b.txt)

\* 100.0 * app / tot as f"{pct:.2f}" prints it, in hundredths of a percent;
\* the division raises ZeroDivisionError on tot = 0 (ok is FALSE).
percent(app, tot) ==
    IF tot = 0 THEN [ok |-> FALSE, v |-> 0]
    ELSE [ok |-> TRUE, v |-> (2 * 10000 * app + tot) \div (2 * tot)]

\* Faulty variant of approved_pct: the division is not guarded.
approved_pct_unguarded(app, tot) == percent(app, tot)

\* pct of _write_csv: (100.0 * app / tot) if tot > 0 else 0.0
approved_pct(app, tot) ==
    IF tot > 0 THEN percent(app, tot) ELSE [ok |-> TRUE, v |-> 0]

\* One row of _write_csv, for the key k of per_type_total.
csv_row(s, k) ==
    [msg_type |-> b2s(k),
     total |-> get(s.per_type_total, k),
     approved |-> get(s.per_type_approved, k),
     approved_pct |-> approved_pct(get(s.per_type_approved, k),
                                   get(s.per_type_total, k)),
     bad_hdr |-> get(s.per_type_bad_hdr, k),
     no_events |-> get(s.per_type_no_events, k),
     time_oow |-> get(s.per_type_time_oow, k),
     bad_units |-> get(s.per_type_bad_units, k),
     miss_oberrs |-> get(s.per_type_miss_oberrs, k),
     miss_adpsfc |-> get(s.per_type_miss_adpsfc, k)]

\* _write_csv: the rows under the header, one per key of per_type_total.
write_csv(s) ==
    LET keys == SortSeq(SetToSeq(DOMAIN s.per_type_total), csv_key_lt)
    IN [written |-> TRUE,
        rows |-> [i \in 1..Len(keys) |-> csv_row(s, keys[i])]]

\* _write_report_csv: one row per FailRecord, in the order of the list; a
\* FailRecord without variable has an empty "var".
write_report_csv(src_path, press_unit, s) ==
    [written |-> TRUE,
     rows |-> [i \in 1..Len(s.fail_records) |->
                 [src_file |-> src_path, press_unit |-> press_unit,
                  msg_type |-> s.fail_records[i].msg_type,
                  subset_idx |-> s.fail_records[i].subset_idx,
                  fail_type |-> s.fail_records[i].fail_type,
                  var |-> IF s.fail_records[i].var = NoVar THEN ""
                          ELSE s.fail_records[i].var]]]

\* The order of sorted(counter.items()): by msg_type, then by variable.
vars_key_lt(a, b) ==
    IF a[1] # b[1] THEN text_rank(a[1]) < text_rank(b[1])
    ELSE text_rank(a[2]) < text_rank(b[2])

\* _write_vars_csv: one row per key of the counter.
write_vars_csv(counter) ==
    LET keys == SortSeq(SetToSeq(DOMAIN counter), vars_key_lt)
    IN [written |-> TRUE,
        rows |-> [i \in 1..Len(keys) |->
                    [msg_type |-> keys[i][1], var |-> keys[i][2],
                     count |-> counter[keys[i]]]]]

\* The fields of the Summary that the CSV writers read.
Summary(st) ==
    [per_type_total |-> per_type_total,
     per_type_approved |-> per_type_approved,
     per_type_bad_hdr |-> per_type_bad_hdr,
     per_type_no_events |-> per_type_no_events,
     per_type_time_oow |-> per_type_time_oow,
     per_type_bad_units |-> per_type_bad_units,
     per_type_miss_oberrs |-> per_type_miss_oberrs,
     per_type_miss_adpsfc |-> per_type_miss_adpsfc,
     fail_records |-> fail_records,
     status |-> st]

\* advance() != 0: the file ends, the handle and the bar are closed, the
\* status is set, the Summary built and the CSV files asked for written.
Finish ==
    /\ pc = "main"
    /\ pc' = "done"
    /\ handle' = "closed"
    /\ pbar' = IF pbar # NoBar THEN [pbar EXCEPT !.closed = TRUE] ELSE pbar
    /\ status' = final_status(bad_hdr, no_events, time_oow, bad_units,
                              miss_oberrs, miss_adpsfc, check_oberrs, kind)
    /\ csv_table' =
          IF csv_out THEN write_csv(Summary(status')) ELSE csv_table
    /\ report_table' =
          IF report_csv
          THEN write_report_csv(path, pressure_unit_used, Summary(status'))
          ELSE report_table
    /\ vars_table' =
          IF vars_csv THEN write_vars_csv(units_by_var_and_type)
          ELSE vars_table
    /\ UNCHANGED <<sampling, options, pressure_unit_used, pscale, mtyp, rec,
                   counters, per_type, wheres, fail_records,
                   units_by_var_and_type, reporting, progress, printed,
                   conv, stream>>

\* The decoder calls of the main pass that can raise.
DecoderCalls == {"advance", "load_subset", "read_subset"}

\* Faulty variant of DecoderError: the handle is not closed.
DecoderError_leaves_open(call) ==
    /\ pc = "main"
    /\ call # "advance" => mtyp # NoMsg
    /\ pc' = "raised"
    /\ IF call = "read_subset"
       THEN /\ nsub' = nsub + 1
            /\ types' = inc(types, mtyp)
       ELSE UNCHANGED <<nsub, types>>
    /\ pbar' = IF pbar # NoBar THEN [pbar EXCEPT !.closed = TRUE] ELSE pbar
    /\ UNCHANGED <<sampling, options, pressure_unit_used, pscale, mtyp, rec,
                   nmsg, bad_hdr, no_events, time_oow, bad_units, miss_oberrs,
                   miss_adpsfc, per_type_total, per_type_approved,
                   per_type_bad_hdr, per_type_no_events, per_type_time_oow,
                   per_type_bad_units, per_type_miss_oberrs,
                   per_type_miss_adpsfc, wheres, fail_records,
                   units_by_var_and_type, status, reporting, progress,
                   printed, files, conv, stream>>

\* A call of the decoder raises inside the try block of the main pass:
\* advance(), load_subset(), or the first read_subset() of a subset (after
\* nsub and types[mtyp] were incremented).  The finally clause closes the
\* handle and the bar and the exception leaves check_file: the statements
\* after the try block (status, Summary, CSV files, return) are not run.
\* A read that raises later in the subset leaves more of the locals
\* updated; they are dropped with the frame all the same.
DecoderError(call) ==
    /\ pc = "main"
    /\ call # "advance" => mtyp # NoMsg
    /\ pc' = "raised"
    /\ IF call = "read_subset"
       THEN /\ nsub' = nsub + 1
            /\ types' = inc(types, mtyp)
       ELSE UNCHANGED <<nsub, types>>
    /\ handle' = "closed"
    /\ pbar' = IF pbar # NoBar THEN [pbar EXCEPT !.closed = TRUE] ELSE pbar
    /\ UNCHANGED <<sampling, options, pressure_unit_used, pscale, mtyp, rec,
                   nmsg, bad_hdr, no_events, time_oow, bad_units, miss_oberrs,
                   miss_adpsfc, per_type_total, per_type_approved,
                   per_type_bad_hdr, per_type_no_events, per_type_time_oow,
                   per_type_bad_units, per_type_miss_oberrs,
                   per_type_miss_adpsfc, wheres, fail_records,
                   units_by_var_and_type, status, reporting, progress,
                   printed, csv_table, report_table, vars_table, conv,
                   stream>>

\* main up to the call of check_file: parse_args ends the program (exit
\* code 2) on a --pressure-unit or a --kind that is not among the choices.
ParseArgs ==
    /\ pc = "cli"
    /\ pc' = IF pressure_unit \in PRESSURE_UNITS /\ kind \in KIND_CHOICES
             THEN "start" ELSE "exit"
    /\ UNCHANGED <<sampling, options, pressure_unit_used, pscale, mtyp, rec,
                   counters, per_type, wheres, fail_records,
                   units_by_var_and_type, status, aside>>

\* check_file up to the call of _autodetect_pressure_unit, and that function
\* up to its outer loop, for pressure_unit "auto".
StartAuto ==
    /\ pc = "start"
    /\ pressure_unit = "auto"
    /\ ProgressSetup
    /\ vals' = <<>>
    /\ cnt' = 0
    /\ pc' = "sample_msg"
    /\ UNCHANGED <<max_samples, smsg, ssub, options, pressure_unit_used,
                   pscale, mtyp, rec, counters, per_type, wheres,
                   fail_records, units_by_var_and_type, status, reporting,
                   files, conv, stream>>

\* _autodetect_pressure_unit from the end of its outer loop: the handle is
\* closed and the unit chosen; check_file goes on to its main loop with the
\* scale of that unit.
SampleReturn ==
    /\ pressure_unit_used' = autodetect_unit(vals)
    /\ printed' = IF ~quiet THEN Append(printed, Line("stdout", "unit", 0))
                  ELSE printed
    /\ pscale' = pressure_scale(pressure_unit_used')
    /\ handle' = "open"
    /\ pc' = "main"
    /\ UNCHANGED <<max_samples, vals, cnt, options, mtyp, rec, counters,
                   per_type, wheres, fail_records, units_by_var_and_type,
                   status, reporting, progress, pbar, csv_table,
                   report_table, vars_table, conv, stream>>

\* The test of the outer loop, b.advance() == 0 and cnt < max_samples, when
\* advance() gives a message: the cap is looked at after the call.
SampleAdvance ==
    /\ pc = "sample_msg"
    /\ smsg < MaxMsgs
    /\ smsg' = smsg + 1
    /\ ssub' = ssub
    /\ IF cnt < max_samples
       THEN /\ pc' = "sample_sub"
            /\ UNCHANGED <<max_samples, vals, cnt, options,
                           pressure_unit_used, pscale, mtyp, rec, counters,
                           per_type, wheres, fail_records,
                           units_by_var_and_type, status, aside>>
       ELSE SampleReturn

\* The test of the outer loop when advance() gives no message.
SampleEnd ==
    /\ pc = "sample_msg"
    /\ UNCHANGED <<smsg, ssub>>
    /\ SampleReturn

\* The test of the inner loop, b.load_subset() == 0 and cnt < max_samples,
\* when load_subset() gives subset r, and the body of the loop: the cap is
\* looked at after the call.
SampleLoad(r) ==
    /\ pc = "sample_sub"
    /\ ssub < MaxRecs
    /\ ssub' = ssub + 1
    /\ IF cnt < max_samples
       THEN /\ vals' = sample_subset(r, vals, max_samples)
            /\ cnt' = Len(vals')
            /\ pc' = "sample_sub"
       ELSE /\ pc' = "sample_msg"
            /\ UNCHANGED <<vals, cnt>>
    /\ UNCHANGED <<max_samples, smsg, options, pressure_unit_used, pscale,
                   mtyp, rec, counters, per_type, wheres, fail_records,
                   units_by_var_and_type, status, aside>>

\* The test of the inner loop when load_subset() gives no subset.
SampleEndMsg ==
    /\ pc = "sample_sub"
    /\ pc' = "sample_msg"
    /\ UNCHANGED <<max_samples, vals, cnt, smsg, ssub, options,
                   pressure_unit_used, pscale, mtyp, rec, counters, per_type,
                   wheres, fail_records, units_by_var_and_type, status,
                   aside>>

\* ------------------------------------------------- actions of the converter
\* What the converter leaves alone of check_file.
check_state ==
    <<path, twind_h, check_oberrs, kind, pressure_unit, where_max,
      pressure_unit_used, pscale, mtyp, counters, per_type, wheres,
      fail_records, units_by_var_and_type, status, sampling, reporting,
      console, files, stream>>
conv_options == <<idate, force_typ, force_t29, blib_on_error>>

\* process up to its loop over the inputs: open_prepbufr connects L_OUT.
ConvOpen ==
    /\ pc = "process"
    /\ out_state' = "open"
    /\ curr' = PyNone
    /\ nout' = 0
    /\ pc' = "conv_file"
    /\ UNCHANGED <<check_state, conv_options, rec, inputs_read, in_msgs,
                   in_subs, msgtype, out_msg, out_file, msg_calls, ret>>

\* The next input file is opened.
ConvOpenInput ==
    /\ pc = "conv_file"
    /\ inputs_read < MaxInputs
    /\ inputs_read' = inputs_read + 1
    /\ pc' = "conv_msg"
    /\ UNCHANGED <<check_state, conv_options, rec, in_msgs, in_subs, msgtype,
                   curr, nout, out_state, out_msg, out_file, msg_calls, ret>>

\* advance() == 0 on a message of type mt, and the call of
\* ensure_open_message as process makes it: the arguments are msgtype,
\* L_OUT, idate_int, curr, in this order, for the parameters curr, msgtype,
\* L_OUT, idate_int.  An exception leaves process through close_prepbufr.
ConvAdvance(mt) ==
    /\ pc = "conv_msg"
    /\ in_msgs < MaxMsgs
    /\ in_msgs' = in_msgs + 1
    /\ msgtype' = mt
    /\ LET e == ensure_open_message(mt, PyInt(L_OUT),
                                    PyInt(idate_int(idate)), curr)
           run == blib_run(e.calls, out_state, out_msg, blib_on_error)
       IN /\ msg_calls' = e.calls
          /\ IF run.end = "ok"
             THEN /\ curr' = e.ret
                  /\ out_msg' = run.msg
                  /\ out_state' = out_state
                  /\ pc' = "conv_sub"
             ELSE IF run.end = "raise"
             THEN /\ curr' = curr
                  /\ out_msg' = PyNone
                  /\ out_state' = "closed"
                  /\ pc' = "conv_raised"
             ELSE /\ curr' = curr
                  /\ out_msg' = run.msg
                  /\ out_state' = out_state
                  /\ pc' = "conv_aborted"
    /\ UNCHANGED <<check_state, conv_options, rec, inputs_read, in_subs,
                   nout, out_file, ret>>

\* load_subset() == 0 on subset r, and write_subset: the subset goes to
\* the message open on L_OUT; without one the library cannot serve the
\* calls of write_subset.
ConvLoad(r) ==
    /\ pc = "conv_sub"
    /\ in_subs < MaxRecs
    /\ in_subs' = in_subs + 1
    /\ rec' = r
    /\ LET w == write_subset(r, idate, force_typ, force_t29, kind)
       IN IF ~w.ret
          THEN /\ ret' = FALSE
               /\ UNCHANGED <<pc, nout, out_state, out_msg, out_file>>
          ELSE IF out_state = "open" /\ out_msg # PyNone
          THEN /\ ret' = TRUE
               /\ nout' = nout + 1
               /\ out_file' = Append(out_file,
                                     [msg |-> out_msg, sub |-> w.sub])
               /\ UNCHANGED <<pc, out_state, out_msg>>
          ELSE IF blib_on_error = "ignore"
          THEN /\ ret' = TRUE
               /\ nout' = nout + 1
               /\ UNCHANGED <<pc, out_state, out_msg, out_file>>
          ELSE IF blib_on_error = "raise"
          THEN /\ pc' = "conv_raised"
               /\ out_state' = "closed"
               /\ out_msg' = PyNone
               /\ UNCHANGED <<ret, nout, out_file>>
          ELSE /\ pc' = "conv_aborted"
               /\ UNCHANGED <<ret, nout, out_state, out_msg, out_file>>
    /\ UNCHANGED <<check_state, conv_options, inputs_read, in_msgs, msgtype,
                   curr, msg_calls>>

\* load_subset() != 0: the message has no further subset.
ConvEndMsg ==
    /\ pc = "conv_sub"
    /\ pc' = "conv_msg"
    /\ UNCHANGED <<check_state, conv, rec>>

\* advance() != 0: the input file is closed.
ConvEndInput ==
    /\ pc = "conv_msg"
    /\ pc' = "conv_file"
    /\ UNCHANGED <<check_state, conv, rec>>

\* No further input: close_prepbufr closes the message and the unit, the
\* count is printed.
ConvFinish ==
    /\ pc = "conv_file"
    /\ out_msg' = PyNone
    /\ out_state' = "closed"
    /\ pc' = "conv_done"
    /\ UNCHANGED <<check_state, conv_options, rec, inputs_read, in_msgs,
                   in_subs, msgtype, curr, nout, out_file, msg_calls, ret>>

Next ==
    \/ Start
    \/ \E m \in FileTypes(path) : Advance(m)
    \/ \E r \in FileRecords(path) : LoadSubset(r)
    \/ Finish

Spec == Init /\ [][Next]_vars

\* The same program on the files that vary one check's fields.
InitHdr ==
    InitWith("hdr", {DEFAULT_TWIND_H}, {FALSE}, {"none", "adpsfc"}, {"hpa"},
             {0})
SpecHdr == InitHdr /\ [][Next]_vars

InitTime ==
    InitWith("time", {DEFAULT_TWIND_H, 500}, {FALSE}, {"none"}, {"hpa"}, {0})
SpecTime == InitTime /\ [][Next]_vars

InitEvents ==
    InitWith("evn", {DEFAULT_TWIND_H}, {FALSE}, {"none", "adpsfc"}, {"hpa"},
             {0})
SpecEvents == InitEvents /\ [][Next]_vars

InitUnits ==
    InitWith("units", {DEFAULT_TWIND_H}, {FALSE}, {"none"},
             {"hpa", "cb", "pa"}, {0})
SpecUnits == InitUnits /\ [][Next]_vars

InitOberrs ==
    InitWith("oberrs", {DEFAULT_TWIND_H}, BOOLEAN, {"none"}, {"hpa"}, {0})
SpecOberrs == InitOberrs /\ [][Next]_vars

InitGate ==
    InitWith("gate", {DEFAULT_TWIND_H}, {FALSE}, {"none", "adpsfc", "adpupa"},
             {"hpa"}, {0})
SpecGate == InitGate /\ [][Next]_vars

InitSfc ==
    InitWith("sfc", {DEFAULT_TWIND_H}, {FALSE}, {"adpsfc"},
             {"hpa", "cb", "pa"}, {0})
SpecSfc == InitSfc /\ [][Next]_vars

InitNonFinite ==
    InitWith("nonfinite", {DEFAULT_TWIND_H}, {TRUE}, {"adpsfc"}, {"hpa"}, {0})
SpecNonFinite == InitNonFinite /\ [][Next]_vars

InitWhere ==
    InitWith("where", {DEFAULT_TWIND_H}, {FALSE}, {"none"}, {"hpa"},
             {0, 1, 2})
SpecWhere == InitWhere /\ [][Next]_vars

\* The program entered at main or at check_file, with options among the
\* choices of the parser and outside them.
NextConfig ==
    \/ ParseArgs
    \/ Start
    \/ \E m \in FileTypes(path) : Advance(m)
    \/ \E r \in FileRecords(path) : LoadSubset(r)
    \/ Finish
InitConfig ==
    InitOpts("gate", {DEFAULT_TWIND_H}, {FALSE}, {"adpsfc", "sfc"},
             {"hpa", "mb"}, {0}, {"cli", "start"},
             {PRESSURE_AUTODETECT_SAMPLES})
SpecConfig == InitConfig /\ [][NextConfig]_vars

\* check_file with the sampling pass of pressure_unit "auto".  max_samples
\* is the parameter of _autodetect_pressure_unit, drawn from SampleCaps;
\* check_file leaves it at its default.  The two passes open the file anew
\* and each draws its subsets from the file's.
SampleCaps == {0, 1, 3, PRESSURE_AUTODETECT_SAMPLES}
NextAuto ==
    \/ Start
    \/ StartAuto
    \/ SampleAdvance
    \/ SampleEnd
    \/ \E r \in FileRecords(path) : SampleLoad(r)
    \/ SampleEndMsg
    \/ \E m \in FileTypes(path) : Advance(m)
    \/ \E r \in FileRecords(path) : LoadSubset(r)
    \/ Finish
InitAuto ==
    \/ InitOpts("auto", {DEFAULT_TWIND_H}, {FALSE}, {"none"}, {"auto"}, {0},
                {"start"}, SampleCaps)
    \/ InitOpts("auto", {DEFAULT_TWIND_H}, {FALSE}, {"none"}, {"cb", "mb"},
                {0}, {"start"}, {PRESSURE_AUTODETECT_SAMPLES})
SpecAuto == InitAuto /\ [][NextAuto]_vars

\* check_file on file "csv", the three CSV files written at the end.
InitCsv ==
    InitWith("csv", {DEFAULT_TWIND_H}, BOOLEAN, {"none", "adpsfc"}, {"hpa"},
             {0})
SpecCsv == InitCsv /\ [][Next]_vars

\* check_file on file "csv" with a decoder that can raise in the main pass,
\* with and without progress bar.
NextDecode ==
    \/ Start
    \/ \E m \in FileTypes(path) : Advance(m)
    \/ \E r \in FileRecords(path) : LoadSubset(r)
    \/ Finish
    \/ \E call \in DecoderCalls : DecoderError(call)
InitDecode ==
    /\ InitCheck("csv", {DEFAULT_TWIND_H}, {FALSE}, {"none"}, {"hpa"}, {0},
                 {"start"}, {PRESSURE_AUTODETECT_SAMPLES})
    /\ InitRun({TRUE}, {"counter", "bar"}, {DEFAULT_PROGRESS_EVERY}, {FALSE},
               {TRUE})
    /\ InitNoConv
    /\ InitStream(FALSE)
SpecDecode == InitDecode /\ [][NextDecode]_vars

\* The converter: process on inputs of file "bufr_small", for each
\* reaction of the library to a call it cannot serve.
NextProcess ==
    \/ ConvOpen
    \/ ConvOpenInput
    \/ \E mt \in BufrTypes : ConvAdvance(mt)
    \/ \E r \in FileRecords(path) : ConvLoad(r)
    \/ ConvEndMsg
    \/ ConvEndInput
    \/ ConvFinish
InitProcess ==
    /\ InitCheck("bufr_small", {DEFAULT_TWIND_H}, {FALSE},
                 {"adpsfc", "adpupa"}, {"hpa"}, {0}, {"process"},
                 {PRESSURE_AUTODETECT_SAMPLES})
    /\ InitRun({TRUE}, {"counter"}, {DEFAULT_PROGRESS_EVERY}, {FALSE},
               {TRUE})
    /\ InitConv({IDATE}, {Absent}, {Absent}, {"abort", "raise", "ignore"})
    /\ InitStream(FALSE)
SpecProcess == InitProcess /\ [][NextProcess]_vars

\* write_subset called on the subsets of file "bufr", with a message open
\* on the output unit.
NextWrite == \E r \in FileRecords(path) : ConvLoad(r)
InitWrite ==
    /\ InitCheck("bufr", {DEFAULT_TWIND_H}, {FALSE}, {"adpsfc", "adpupa"},
                 {"hpa"}, {0}, {"conv_sub"}, {PRESSURE_AUTODETECT_SAMPLES})
    /\ InitRun({TRUE}, {"counter"}, {DEFAULT_PROGRESS_EVERY}, {FALSE},
               {TRUE})
    /\ idate = IDATE
    /\ force_typ \in {Absent, Fin(12000)}
    /\ force_t29 = Absent
    /\ blib_on_error = "abort"
    /\ inputs_read = 1 /\ in_msgs = 1 /\ in_subs = 0
    /\ msgtype \in BufrTypes
    /\ curr = msgtype
    /\ nout = 0
    /\ out_state = "open"
    /\ out_msg = msgtype
    /\ out_file = <<>>
    /\ msg_calls = <<>>
    /\ ret = FALSE
    /\ InitStream(FALSE)
SpecWrite == InitWrite /\ [][NextWrite]_vars

\* check_file on file "order", every check enabled.
InitOrder ==
    InitWith("order", {DEFAULT_TWIND_H}, {TRUE}, {"adpsfc"}, {"hpa"}, {0})
SpecOrder == InitOrder /\ [][Next]_vars

\* check_file on file "progress" under every progress mode, with and
\* without tqdm, quiet and not, reporting every second subset or never;
\* every check enabled; the stream read is recorded.
ProgressModes == {"off", "counter", "bar"}
InitProgress ==
    /\ InitCheck("progress", {DEFAULT_TWIND_H}, {TRUE}, {"adpsfc"}, {"hpa"},
                 {0}, {"start"}, {PRESSURE_AUTODETECT_SAMPLES})
    /\ InitRun({TRUE}, ProgressModes, {0, 2}, BOOLEAN, BOOLEAN)
    /\ InitNoConv
    /\ InitStream(TRUE)
SpecProgress == InitProgress /\ [][Next]_vars

\* ------------------------------------------------------------------ claims
RECURSIVE SumOver(_, _)
SumOver(d, K) ==
    IF K = {} THEN 0
    ELSE LET k == CHOOSE x \in K : TRUE IN d[k] + SumOver(d, K \ {k})
\* The sum of a per-msg_type counter over the msg_types seen.
Total(d) == SumOver(d, DOMAIN d)

\* The positions of the FailRecords of one kind in a list.
FailsOf(lst, knd) == {i \in 1..Len(lst) : lst[i].fail_type = knd}
NumFails(knd) == Cardinality(FailsOf(fail_records, knd))

\* A step that reads one subset, and what it appends to fail_records.
ReadsSubset == nsub' = nsub + 1
NewFails == SubSeq(fail_records', Len(fail_records) + 1, Len(fail_records'))
\* 1 for a condition that holds, 0 otherwise.
One(b) == IF b THEN 1 ELSE 0
\* The other msg_types keep their count.
OthersKept(d, dNext, m) ==
    /\ DOMAIN dNext = DOMAIN d
    /\ \A k \in DOMAIN d \ {m} : dNext[k] = d[k]

\* C1: a subset adds exactly 1 to per_type_approved of its msg_type iff none
\* of the applicable checks failed on it (header, time window, final event,
\* units, observation errors only under check_oberrs, ADPSFC fields only
\* under kind "adpsfc"); otherwise per_type_approved is unchanged.
C1_ApprovedIffNoApplicableFailure ==
    [][ReadsSubset =>
          LET failed ==
                \/ bad_hdr' # bad_hdr
                \/ time_oow' # time_oow
                \/ no_events' # no_events
                \/ bad_units' # bad_units
                \/ (check_oberrs /\ miss_oberrs' # miss_oberrs)
                \/ (kind = "adpsfc" /\ miss_adpsfc' # miss_adpsfc)
          IN /\ per_type_approved'[mtyp]
                  = per_type_approved[mtyp] + One(~failed)
             /\ OthersKept(per_type_approved, per_type_approved', mtyp)]_vars

\* C1 witness: with both optional checks off, a subset without TOE has been
\* approved after a subset that failed the time window was not.
C1_Witness ==
    /\ ~check_oberrs /\ kind = "adpupa"
    /\ nsub = 2
    /\ rec = Mixed({"toe"})
    /\ time_oow = 1
    /\ Total(per_type_approved) = 1

\* C2: at the end of the stream the status is PASSOU iff bad_hdr, no_events,
\* time_oow and bad_units are zero, and miss_oberrs is zero or check_oberrs
\* is off, and miss_adpsfc is zero or kind is not "adpsfc"; otherwise it is
\* ATENCAO.
C2_StatusIffEnabledCountersZero ==
    pc = "done" =>
       /\ status \in {"PASSOU", "ATENCAO"}
       /\ status = "PASSOU" <=>
             /\ bad_hdr = 0 /\ no_events = 0 /\ time_oow = 0 /\ bad_units = 0
             /\ (miss_oberrs = 0 \/ ~check_oberrs)
             /\ (miss_adpsfc = 0 \/ kind # "adpsfc")

\* C2 witness: a run ended ATENCAO with miss_adpsfc the only counter that is
\* not zero.
C2_Witness ==
    /\ pc = "done" /\ status = "ATENCAO"
    /\ bad_hdr = 0 /\ no_events = 0 /\ time_oow = 0 /\ bad_units = 0
    /\ miss_oberrs = 0 /\ miss_adpsfc > 0

\* C3: after any prefix of the stream each of the six global failure
\* counters equals the sum of its per-msg_type counters.
C3_GlobalIsSumOfPerType ==
    /\ bad_hdr = Total(per_type_bad_hdr)
    /\ no_events = Total(per_type_no_events)
    /\ time_oow = Total(per_type_time_oow)
    /\ bad_units = Total(per_type_bad_units)
    /\ miss_oberrs = Total(per_type_miss_oberrs)
    /\ miss_adpsfc = Total(per_type_miss_adpsfc)

\* C3 witness: two msg_types each hold one subset that failed the header,
\* the units and the observation-error checks.
C3_Witness ==
    /\ Cardinality(DOMAIN per_type_bad_units) = 2
    /\ \A m \in DOMAIN per_type_bad_units :
          /\ per_type_bad_units[m] = 1
          /\ per_type_bad_hdr[m] = 1
          /\ per_type_miss_oberrs[m] = 1
    /\ bad_units = 2 /\ miss_oberrs = 2

\* C4: after any prefix of the stream the sum of per_type_total over the
\* msg_types seen equals nsub.
C4_TotalsSumToNsub == Total(per_type_total) = nsub

\* C4 witness: two subsets in two msg_types, one that failed every check and
\* one that failed none.
C4_Witness ==
    /\ nsub = 2
    /\ Cardinality(DOMAIN per_type_total) = 2
    /\ \A m \in DOMAIN per_type_total : per_type_total[m] = 1
    /\ Total(per_type_approved) = 1
    /\ bad_hdr = 1 /\ bad_units = 1

\* C5: every failure is counted and recorded and the stream goes on: for
\* each kind but bad_units the FailRecords of the kind are as many as the
\* global counter, and the subsets counted in bad_units are exactly the
\* subsets that have a bad_units FailRecord.
C5_FailRecordsMatchCounters ==
    /\ NumFails(FAIL_HDR) = bad_hdr
    /\ NumFails(FAIL_EVENTS) = no_events
    /\ NumFails(FAIL_TIME) = time_oow
    /\ NumFails(FAIL_OBERRS) = miss_oberrs
    /\ NumFails(FAIL_ADPSFC) = miss_adpsfc
    /\ Cardinality({fail_records[i].subset_idx :
                      i \in FailsOf(fail_records, FAIL_UNITS)}) = bad_units
    /\ \A i \in 1..Len(fail_records) :
          fail_records[i].subset_idx \in 1..nsub

\* C5 witness: the run ended after a subset that failed several checks at
\* once (two units variables among them) was followed by another subset.
C5_Witness ==
    /\ pc = "done" /\ nsub = 2
    /\ NumFails(FAIL_UNITS) = 2 /\ bad_units = 1
    /\ bad_hdr = 1 /\ no_events = 1 /\ time_oow = 1 /\ miss_oberrs = 1
    /\ \A i \in 1..Len(fail_records) : fail_records[i].subset_idx = 1

\* The subset a step reads has a FailRecord of kind knd (tagged var).
NewFail(knd, var) ==
    \E i \in 1..Len(NewFails) :
       /\ NewFails[i].fail_type = knd
       /\ NewFails[i].var = var
       /\ NewFails[i].subset_idx = nsub'

\* C6: a subset fails the header check (bad_hdr goes up by 1, a bad_header
\* FailRecord, no approval) iff at least one of XOB, YOB, DHR, TYP, ELV,
\* SAID, T29 is absent, whatever the other fields hold.
C6_HeaderFailsIffRequiredFieldAbsent ==
    [][ReadsSubset =>
          LET missing ==
                \E f \in {"XOB", "YOB", "DHR", "TYP", "ELV", "SAID", "T29"} :
                   rec'.fld[f].k = "abs"
          IN /\ bad_hdr' = bad_hdr + One(missing)
             /\ per_type_bad_hdr'[mtyp] = per_type_bad_hdr[mtyp] + One(missing)
             /\ NewFail(FAIL_HDR, NoVar) <=> missing
             /\ missing => per_type_approved' = per_type_approved]_vars

\* C6 witness: a subset that lacks only T29, every other field valid, is
\* counted in bad_hdr, fails nothing else and is not approved.
C6_Witness ==
    /\ nsub = 1
    /\ rec = WithoutFields(Base, {"T29"})
    /\ bad_hdr = 1
    /\ Len(fail_records) = 1
    /\ Total(per_type_approved) = 0

\* C7 as claimed: a subset fails the time window iff DHR is absent or
\* |DHR| > twind_h (false for a DHR that is nan).
C7_AsClaimed ==
    [][ReadsSubset =>
          LET dhr == rec'.fld["DHR"]
              beyond ==
                \/ dhr.k = "inf"
                \/ dhr.k = "fin" /\ (dhr.v > twind_h \/ -(dhr.v) > twind_h)
          IN time_oow' = time_oow + One(dhr.k = "abs" \/ beyond)]_vars

\* C7: a subset fails the time window iff DHR is absent, or is nan, or
\* |DHR| > twind_h; |DHR| = twind_h passes, and every such failure is one
\* time_out_of_window FailRecord.
C7_TimeFailsIffAbsentNanOrBeyond ==
    [][ReadsSubset =>
          LET dhr == rec'.fld["DHR"]
              beyond ==
                \/ dhr.k = "inf"
                \/ dhr.k = "fin" /\ (dhr.v > twind_h \/ -(dhr.v) > twind_h)
              fails == dhr.k = "abs" \/ dhr.k = "nan" \/ beyond
          IN /\ time_oow' = time_oow + One(fails)
             /\ per_type_time_oow'[mtyp] = per_type_time_oow[mtyp] + One(fails)
             /\ NewFail(FAIL_TIME, NoVar) <=> fails
             /\ fails => per_type_approved' = per_type_approved]_vars

\* C7 witness: under a window of 3 h, a subset with DHR = 3.0 passed the time
\* window and the next one, with DHR = nan, failed it.
C7_Witness ==
    /\ twind_h = 300
    /\ nsub = 2
    /\ rec.fld["DHR"] = NaN
    /\ time_oow = 1
    /\ fail_records = <<FailRecord("ADPSFC", 2, FAIL_TIME, NoVar)>>
    /\ Total(per_type_approved) = 1

\* C8: a subset fails the final-event check iff TEVN has no event column with
\* a finite quality mark in row 1 of its last column, WEVN none with a finite
\* quality mark in row 2 of its last column, and PEVN, ZEVN and QEVN have no
\* event column.
C8_NoEventsIffNoFamilyMatches ==
    [][ReadsSubset =>
          LET t == rec'.seq["TEVN"]
              w == rec'.seq["WEVN"]
              columns(a) == IF a.nrows = 0 THEN 0 ELSE a.ncols
              tevn == columns(t) >= 1 /\ t.nrows >= 2 /\ t.last[2].k = "fin"
              wevn == columns(w) >= 1 /\ w.nrows >= 3 /\ w.last[3].k = "fin"
              other ==
                \E s \in {"PEVN", "ZEVN", "QEVN"} : columns(rec'.seq[s]) >= 1
              fails == ~(tevn \/ wevn \/ other)
          IN /\ no_events' = no_events + One(fails)
             /\ per_type_no_events'[mtyp]
                  = per_type_no_events[mtyp] + One(fails)
             /\ NewFail(FAIL_EVENTS, NoVar) <=> fails
             /\ fails => per_type_approved' = per_type_approved]_vars

\* C8 witness: a subset whose only sequence is QEVN passed the check, and the
\* next one, whose TEVN and WEVN are present with a quality mark that is nan,
\* failed it.
C8_Witness ==
    /\ nsub = 2
    /\ no_events = 1
    /\ fail_records = <<FailRecord("ADPSFC", 2, FAIL_EVENTS, NoVar)>>
    /\ Total(per_type_approved) = 1
    /\ rec.seq["TEVN"] = MkSeq(<<Fin(28000), NaN, Fin(100), Fin(100)>>)
    /\ rec.seq["WEVN"] =
          MkSeq(<<Fin(500), Fin(-500), NaN, Fin(100), Fin(100)>>)

\* The units variables of subset r that are present and whose value, times
\* the factor of unit for POB, is not finite or outside RANGE.
OutOfRangeVars(r, unit) ==
    {nm \in {"XOB", "YOB", "TOB", "POB", "ZOB", "UOB", "VOB", "QOB"} :
       LET x == r.fld[nm]
           num == IF nm = "POB" /\ unit = "cb" THEN 10 ELSE 1
           den == IF nm = "POB" /\ unit = "pa" THEN 100 ELSE 1
       IN /\ x.k # "abs"
          /\ \/ x.k # "fin"
             \/ x.v * num < RANGE[nm][1] * den
             \/ x.v * num > RANGE[nm][2] * den}

\* C9: a subset in which k of the eight variables fail appends exactly k
\* bad_units FailRecords, one per failing variable, and adds 1 to bad_units
\* (global and per msg_type) when k >= 1 and 0 when k = 0.
C9_OneRecordPerVariableOneCount ==
    [][ReadsSubset =>
          LET K == {nm \in UnitVarSet :
                      rec'.fld[nm].k # "abs"
                      /\ ~check_range(rec', nm, pscale)}
              tagged == FailsOf(NewFails, FAIL_UNITS)
          IN /\ Cardinality(tagged) = Cardinality(K)
             /\ {NewFails[i].var : i \in tagged} = K
             /\ \A i \in tagged : NewFails[i].subset_idx = nsub'
             /\ bad_units' = bad_units + One(K # {})
             /\ per_type_bad_units'[mtyp]
                  = per_type_bad_units[mtyp] + One(K # {})]_vars

\* C9 witness: a subset with all eight variables out of range left eight
\* FailRecords and a count of 1, and the next one, with none, left nothing.
C9_Witness ==
    /\ nsub = 2
    /\ rec = Base
    /\ pressure_unit_used = "hpa"
    /\ NumFails(FAIL_UNITS) = 8
    /\ Len(fail_records) = 8
    /\ bad_units = 1

\* C10: an absent variable never fails the units check; a present one fails
\* it iff its value (POB: times the pressure factor) is not finite or
\* outside the closed interval of RANGE; a subset with such a variable is
\* not approved.
C10_UnitsFailIffOutsideClosedRange ==
    [][ReadsSubset =>
          LET bad == OutOfRangeVars(rec', pressure_unit_used)
          IN /\ \A nm \in UnitVarSet : NewFail(FAIL_UNITS, nm) <=> nm \in bad
             /\ bad # {} => per_type_approved' = per_type_approved]_vars

\* C10 witness: TOB = 500 K left exactly one FailRecord, bad_units tagged
\* TOB, and the subset was not approved.
C10_Witness ==
    /\ pressure_unit_used = "hpa"
    /\ nsub = 1
    /\ rec = With(Base, "TOB", Fin(50000))
    /\ fail_records = <<FailRecord("ADPSFC", 1, FAIL_UNITS, "TOB")>>
    /\ bad_units = 1
    /\ Total(per_type_approved) = 0

\* C11: under check_oberrs a subset fails the observation-error check iff
\* for one of the pairs TOB/TOE, UOB-or-VOB/WOE, POB/POE, ZOB/ZOE, QOB/QOE the
\* observation is present and the error absent; a failing subset adds 1 to
\* miss_oberrs and one missing_oberrs FailRecord without variable, however
\* many pairs miss; without check_oberrs miss_oberrs stays 0 and no
\* missing_oberrs FailRecord is appended.
C11_OberrsFailIffPairMisses ==
    [][ReadsSubset =>
          LET has(f) == rec'.fld[f].k # "abs"
              pair_misses ==
                \/ has("TOB") /\ ~has("TOE")
                \/ (has("UOB") \/ has("VOB")) /\ ~has("WOE")
                \/ has("POB") /\ ~has("POE")
                \/ has("ZOB") /\ ~has("ZOE")
                \/ has("QOB") /\ ~has("QOE")
              fails == check_oberrs /\ pair_misses
              tagged == FailsOf(NewFails, FAIL_OBERRS)
          IN /\ miss_oberrs' = miss_oberrs + One(fails)
             /\ per_type_miss_oberrs'[mtyp]
                  = per_type_miss_oberrs[mtyp] + One(fails)
             /\ Cardinality(tagged) = One(fails)
             /\ \A i \in tagged :
                   /\ NewFails[i].var = NoVar
                   /\ NewFails[i].subset_idx = nsub'
             /\ fails => per_type_approved' = per_type_approved
             /\ ~check_oberrs =>
                   miss_oberrs' = 0 /\ NumFails(FAIL_OBERRS)' = 0]_vars

\* C11 witness: under check_oberrs a subset that lacks all five errors left
\* one FailRecord and a count of 1, and the next one, which lacks WOE and UOB
\* but has VOB, left the second.
C11_Witness ==
    /\ check_oberrs
    /\ nsub = 2
    /\ rec = WithoutFields(Base, {"WOE", "UOB"})
    /\ miss_oberrs = 2
    /\ fail_records =
          <<FailRecord("ADPSFC", 1, FAIL_OBERRS, NoVar),
            FailRecord("ADPSFC", 2, FAIL_OBERRS, NoVar)>>

\* C12: the ADPSFC check is made on a subset iff kind is "adpsfc" and the
\* subset passed the header and the final-event checks: a subset that failed
\* one of the two, and every subset under kind "adpupa" or no kind, adds
\* nothing to miss_adpsfc and appends no missing_adpsfc FailRecord, whatever
\* PRSS, PWO and CAT hold; a subset on which the check is made and that lacks
\* one of the three is counted.
C12_AdpsfcOnlyForSignificantSubsets ==
    [][ReadsSubset =>
          LET evaluated ==
                /\ kind = "adpsfc"
                /\ bad_hdr' = bad_hdr
                /\ no_events' = no_events
              lacks ==
                \E f \in {"PRSS", "PWO", "CAT"} : rec'.fld[f].k = "abs"
          IN /\ ~evaluated =>
                   /\ miss_adpsfc' = miss_adpsfc
                   /\ per_type_miss_adpsfc' = per_type_miss_adpsfc
                   /\ FailsOf(NewFails, FAIL_ADPSFC) = {}
             /\ evaluated /\ lacks =>
                   /\ miss_adpsfc' = miss_adpsfc + 1
                   /\ NewFail(FAIL_ADPSFC, NoVar)
             /\ kind # "adpsfc" => miss_adpsfc' = 0]_vars

\* C12 witness: under kind "adpsfc" a subset that failed the header check
\* left only its bad_header FailRecord, and the next one, with header and
\* event good and PRSS, PWO and CAT absent, was counted in miss_adpsfc.
C12_Witness ==
    /\ kind = "adpsfc"
    /\ nsub = 2
    /\ rec = WithoutFields(Base, {"PRSS", "PWO", "CAT"})
    /\ bad_hdr = 1 /\ no_events = 0 /\ miss_adpsfc = 1
    /\ fail_records =
          <<FailRecord("ADPSFC", 1, FAIL_HDR, NoVar),
            FailRecord("ADPSFC", 2, FAIL_ADPSFC, NoVar)>>

\* C13: a subset on which the ADPSFC check is made fails it iff PRSS, PWO or
\* CAT is absent, or PRSS times the pressure factor is not inside
\* [500, 1085], or PWO is not inside [0, 100]; a failing subset adds 1 to
\* miss_adpsfc and one missing_adpsfc FailRecord, however many of these hold.
C13_AdpsfcFailsIffAuxMissingOrImplausible ==
    [][ReadsSubset /\ kind = "adpsfc"
         /\ bad_hdr' = bad_hdr /\ no_events' = no_events =>
          LET prss == rec'.fld["PRSS"]
              pwo == rec'.fld["PWO"]
              num == IF pressure_unit_used = "cb" THEN 10 ELSE 1
              den == IF pressure_unit_used = "pa" THEN 100 ELSE 1
              prss_inside ==
                /\ prss.k = "fin"
                /\ 50000 * den <= prss.v * num
                /\ prss.v * num <= 108500 * den
              pwo_inside == pwo.k = "fin" /\ 0 <= pwo.v /\ pwo.v <= 10000
              fails ==
                \/ \E f \in {"PRSS", "PWO", "CAT"} : rec'.fld[f].k = "abs"
                \/ ~prss_inside
                \/ ~pwo_inside
              tagged == FailsOf(NewFails, FAIL_ADPSFC)
          IN /\ miss_adpsfc' = miss_adpsfc + One(fails)
             /\ per_type_miss_adpsfc'[mtyp]
                  = per_type_miss_adpsfc[mtyp] + One(fails)
             /\ Cardinality(tagged) = One(fails)
             /\ \A i \in tagged :
                   /\ NewFails[i].var = NoVar
                   /\ NewFails[i].subset_idx = nsub'
             /\ fails => per_type_approved' = per_type_approved]_vars

\* C13 witness: with pressures in Pa, a subset passed every check and the
\* next one, with PRSS and CAT absent and PWO = 200, left one FailRecord and
\* a count of 1.
C13_Witness ==
    /\ kind = "adpsfc" /\ pressure_unit_used = "pa"
    /\ nsub = 2
    /\ rec = With(WithoutFields(Base, {"PRSS", "CAT"}), "PWO", Fin(20000))
    /\ miss_adpsfc = 1
    /\ NumFails(FAIL_ADPSFC) = 1
    /\ \E i \in 1..Len(fail_records) :
          fail_records[i] = FailRecord("ADPSFC", 2, FAIL_ADPSFC, NoVar)
    /\ \A i \in 1..Len(fail_records) : fail_records[i].subset_idx = 2

\* C14 as claimed: a run whose pressure unit is outside hpa, cb, pa, auto
\* or whose kind is outside none, adpsfc, adpupa reads no message and no
\* subset and ends without status (false for check_file entered with unit
\* "mb" or kind "sfc": only the parser of main rejects them).
C14_InvalidConfigReadsNothing ==
    (\/ pressure_unit \notin {"hpa", "cb", "pa", "auto"}
     \/ kind \notin {"none", "adpsfc", "adpupa"}) =>
       /\ nmsg = 0 /\ nsub = 0
       /\ pc # "done"
       /\ status = "unset"

\* C15 as claimed: a field that is present with a value that is not finite
\* is treated as an absent field: the subset read leaves the FailRecords,
\* the counters and the approval that the same subset with the field absent
\* leaves (false: a nan T29 passes the header check, a nan TOB fails the
\* units check, a nan TOE passes the observation-error check and a nan CAT
\* the ADPSFC check, where the absent field does the opposite).
C15_NonFiniteAsAbsent ==
    [][ReadsSubset =>
          \A f \in Fields :
             rec'.fld[f].k \in {"nan", "inf"} =>
                LET a == With(rec', f, Absent)
                IN /\ NewFails =
                        subset_fail_records(a, mtyp, nsub', twind_h,
                                            check_oberrs, kind, pscale)
                   /\ bad_hdr' = bad_hdr + One(subset_bad_hdr(a))
                   /\ bad_units' = bad_units + One(subset_bad_units(a, pscale))
                   /\ miss_oberrs'
                        = miss_oberrs + One(subset_miss_oberrs(a, check_oberrs))
                   /\ miss_adpsfc'
                        = miss_adpsfc + One(subset_miss_adpsfc(a, kind, pscale))
                   /\ per_type_approved' # per_type_approved
                        <=> subset_approved(a, twind_h, check_oberrs, kind,
                                            pscale)]_vars

\* The median of the samples lies inside [lo, hi] (hundredths).
MedianInside(lo, hi) ==
    /\ vals # <<>>
    /\ lo * median(vals).d <= median(vals).v
    /\ median(vals).v <= hi * median(vals).d

\* C16: the unit autodetected is a function of the samples alone: the unit
\* of the first of the windows of hPa [50, 1100], cb [5, 110] and Pa
\* [5000, 110000] that holds their median, and hpa without samples or with
\* a median in no window; a median of 1000 gives hpa and the factor 1, a
\* median of 100000 gives pa and the factor 1/100.
C16_UnitIsFirstWindowOfMedian ==
    pc \in {"main", "done"} /\ pressure_unit = "auto" =>
       /\ pressure_unit_used =
             (IF MedianInside(5000, 110000) THEN "hpa"
              ELSE IF MedianInside(500, 11000) THEN "cb"
              ELSE IF MedianInside(500000, 11000000) THEN "pa"
              ELSE "hpa")
       /\ vals = <<>> => pressure_unit_used = "hpa"
       /\ MedianInside(100000, 100000) =>
             pressure_unit_used = "hpa" /\ pscale = [v |-> 1, d |-> 1]
       /\ MedianInside(10000000, 10000000) =>
             pressure_unit_used = "pa" /\ pscale = [v |-> 1, d |-> 100]

\* C16 witness: the samples 100000, 100000 and 1000, in the order read,
\* have the median 100000, and the unit chosen is pa with the factor 1/100.
C16_Witness ==
    /\ pc = "main" /\ pressure_unit = "auto"
    /\ vals = <<Fin(10000000), Fin(10000000), Fin(100000)>>
    /\ pressure_unit_used = "pa"
    /\ pscale = [v |-> 1, d |-> 100]

\* C17 as claimed: the windows of hPa, cb and Pa are pairwise disjoint: the
\* median of the samples lies inside at most one of them, unless it is a
\* bound of two windows (false: [50, 1100] and [5, 110] share [50, 110], so
\* a median of 100 lies inside both and is resolved by the order alone).
C17_WindowsDisjoint ==
    pc \in {"main", "done"} /\ pressure_unit = "auto" =>
       LET windows ==
             {<<5000, 110000>>, <<500, 11000>>, <<500000, 11000000>>}
           holding == {w \in windows : MedianInside(w[1], w[2])}
           on_bound(w) ==
             MedianInside(w[1], w[1]) \/ MedianInside(w[2], w[2])
       IN \/ Cardinality(holding) <= 1
          \/ Cardinality({w \in holding : on_bound(w)}) >= 2

\* The sampling pass is under way.
Sampling == pc \in {"sample_msg", "sample_sub"}
\* The values of POB and PRSS in the subsets of the file.
PressuresOfFile ==
    {r.fld[f] : r \in FileRecords(path), f \in {"POB", "PRSS"}}

\* C18 as claimed: once max_samples samples are collected the sampling pass
\* reads no more of the input (false: each loop calls the decoder before it
\* looks at the cap, so one more subset is loaded and one more message
\* entered).
C18_NoDecoderCallAfterCap ==
    [][Sampling /\ max_samples > 0 /\ cnt >= max_samples =>
          smsg' = smsg /\ ssub' = ssub]_vars

\* C18: in the sampling pass the samples are never more than max_samples
\* and each is a finite value > 0 of POB or PRSS; once max_samples samples
\* are collected no field is read and no sample added: the inner loop ends
\* on its next test, after at most one more load_subset(), and the outer
\* loop on its next, after one more advance(), and the pass returns; it also
\* returns when advance() gives no message.
C18_SamplesCappedFinitePositive ==
    [][/\ Len(vals') <= max_samples
       /\ cnt' = Len(vals')
       /\ \A i \in 1..Len(vals') :
             /\ vals'[i] \in PressuresOfFile
             /\ vals'[i].k = "fin"
             /\ vals'[i].v > 0
       /\ Sampling /\ cnt >= max_samples =>
             /\ vals' = vals
             /\ pc = "sample_sub" => pc' = "sample_msg" /\ ssub' <= ssub + 1
             /\ pc = "sample_msg" => pc' = "main" /\ smsg' <= smsg + 1
       /\ pc = "sample_msg" /\ smsg' = smsg => pc' = "main"
       /\ ~Sampling /\ pc # "start" => vals' = vals]_vars

\* C18 witness: with max_samples = 1 the pass returned with one sample
\* after two subsets were loaded and two messages entered.
C18_Witness ==
    /\ pc = "main" /\ pressure_unit = "auto"
    /\ max_samples = 1
    /\ cnt = 1 /\ vals = <<Fin(100000)>>
    /\ ssub = 2 /\ smsg = 2
    /\ nsub = 0

\* C19: the pressure unit is resolved once, on the step that enters the
\* main loop, and the sampling pass is over before the main loop reads its
\* first message: no sampling step follows, pressure_unit_used and the
\* factor stay as they are for every subset, the factor is the one of the
\* unit, and the unit at the end of the run is hpa, cb or pa.
C19_UnitResolvedOnceBeforeMainPass ==
    [][/\ (pressure_unit_used' # pressure_unit_used \/ pscale' # pscale) =>
             /\ pc \in {"start", "sample_msg"} /\ pc' = "main"
             /\ nmsg = 0 /\ nsub = 0
       /\ (nmsg' # nmsg \/ nsub' # nsub) =>
             /\ pc = "main"
             /\ pressure_unit_used' = pressure_unit_used
             /\ pscale' = pscale
       /\ (vals' # vals \/ smsg' # smsg \/ ssub' # ssub) =>
             Sampling /\ nmsg = 0 /\ nsub = 0
       /\ pc' \in {"main", "done"} =>
             /\ pressure_unit_used' \in {"hpa", "cb", "pa"}
             /\ pscale' =
                   (IF pressure_unit_used' = "cb" THEN [v |-> 10, d |-> 1]
                    ELSE IF pressure_unit_used' = "pa"
                    THEN [v |-> 1, d |-> 100]
                    ELSE [v |-> 1, d |-> 1])]_vars

\* C19 witness: a run under "auto" whose sampling pass chose cb has ended
\* after two subsets, with the factor 10.
C19_Witness ==
    /\ pc = "done" /\ pressure_unit = "auto"
    /\ vals # <<>>
    /\ pressure_unit_used = "cb"
    /\ pscale = [v |-> 10, d |-> 1]
    /\ nsub = 2

\* The i-th FailRecord of kind knd in lst.
KthFail(lst, knd, i) ==
    lst[CHOOSE j \in FailsOf(lst, knd) :
           Cardinality({x \in FailsOf(lst, knd) : x <= j}) = i]
\* List lst holds min(cap, failures of kind knd) entries, and its i-th
\* entry is for the i-th failure of the kind in fails (tagged with the
\* variable when with_var).
HoldsEarliest(lst, fails, knd, cap, with_var) ==
    LET n == Cardinality(FailsOf(fails, knd))
    IN /\ Len(lst) = (IF cap < n THEN cap ELSE n)
       /\ \A i \in 1..Len(lst) :
             LET f == KthFail(fails, knd, i)
             IN /\ lst[i].subset = f.subset_idx
                /\ lst[i].msg_type = f.msg_type
                /\ lst[i].extra = (IF with_var THEN f.var ELSE "")
IsPrefix(a, b) == Len(a) <= Len(b) /\ SubSeq(b, 1, Len(a)) = a

\* C20: for where_max >= 0, after any prefix of the stream each of
\* where_hdr, where_time, where_events and where_units holds
\* min(where_max, failures of its category so far) entries, which are the
\* earliest of the category in stream order (one per variable out of range
\* for where_units); an entry appended is never changed or removed; with
\* where_max = 0 the four lists stay empty.
C20_WhereListsHoldEarliestUpToCap ==
    [][/\ HoldsEarliest(where_hdr', fail_records', FAIL_HDR, where_max,
                        FALSE)
       /\ HoldsEarliest(where_time', fail_records', FAIL_TIME, where_max,
                        FALSE)
       /\ HoldsEarliest(where_events', fail_records', FAIL_EVENTS,
                        where_max, FALSE)
       /\ HoldsEarliest(where_units', fail_records', FAIL_UNITS, where_max,
                        TRUE)
       /\ IsPrefix(where_hdr, where_hdr')
       /\ IsPrefix(where_time, where_time')
       /\ IsPrefix(where_events, where_events')
       /\ IsPrefix(where_units, where_units')
       /\ where_max = 0 =>
             /\ where_hdr' = <<>> /\ where_time' = <<>>
             /\ where_events' = <<>> /\ where_units' = <<>>]_vars

\* C20 witness: with where_max = 1, two subsets failed the header and four
\* variables were out of range, and where_hdr and where_units each hold the
\* one entry of subset 1.
C20_Witness ==
    /\ where_max = 1
    /\ nsub = 2
    /\ bad_hdr = 2 /\ NumFails(FAIL_UNITS) = 4
    /\ Len(where_hdr) = 1 /\ where_hdr[1].subset = 1
    /\ Len(where_units) = 1
    /\ where_units[1].subset = 1 /\ where_units[1].extra = "TOB"


\* ---------------------------------------------------------------------------
\* C21: the summary-by-category table has one row per category label;
\* messages whose labels are the same text under different representations
\* (bytes and str) are aggregated under one key, so no two rows of the
\* table show the same label.
\* The per-type dictionaries are keyed by msg_type as the decoder gives it
\* and _write_csv decodes the key only when it prints the row, so the
\* statement does not hold of the table written.
C21_OneRowPerCategoryLabel ==
    csv_table.written =>
        \A i, j \in 1..Len(csv_table.rows) :
            i # j => csv_table.rows[i].msg_type # csv_table.rows[j].msg_type


\* The categories of the FailRecords and of the per-variable table: the
\* texts of the msg_types.
Categories == {b2s(k) : k \in DOMAIN per_type_total}
\* The bad_units FailRecords of category c and variable v.
UnitFails(c, v) ==
    {i \in 1..Len(fail_records) :
        /\ fail_records[i].fail_type = FAIL_UNITS
        /\ fail_records[i].msg_type = c
        /\ fail_records[i].var = v}
\* The rows of the per-variable table for category c, and their counts.
VarRows(c) ==
    {i \in 1..Len(vars_table.rows) : vars_table.rows[i].msg_type = c}
VarRowsSum(c) ==
    SumOver([i \in 1..Len(vars_table.rows) |-> vars_table.rows[i].count],
            VarRows(c))
\* A per-type counter of category c, over the keys that print as c.
OfCategory(d, c) == SumOver(d, {k \in DOMAIN d : b2s(k) = c})

\* ---------------------------------------------------------------------------
\* C22: at the end of the run the per-variable table has a row for a pair
\* (category, variable) iff a bad_units FailRecord of that category and
\* variable exists, there is one such row, its count is the number of those
\* FailRecords (so never zero), and for each category the counts of its
\* rows add up to at least the category's bad_units counter.
C22_VarsTableCountsUnitFails ==
    (pc = "done" /\ vars_table.written) =>
        /\ \A i \in 1..Len(vars_table.rows) :
              LET row == vars_table.rows[i]
              IN /\ row.msg_type \in Categories
                 /\ row.var \in UnitVarSet
                 /\ row.count = Cardinality(UnitFails(row.msg_type, row.var))
                 /\ row.count > 0
                 /\ \A j \in 1..Len(vars_table.rows) :
                       (vars_table.rows[j].msg_type = row.msg_type
                        /\ vars_table.rows[j].var = row.var) => j = i
        /\ \A c \in Categories : \A v \in UnitVarSet :
              UnitFails(c, v) # {} =>
                 \E i \in 1..Len(vars_table.rows) :
                    /\ vars_table.rows[i].msg_type = c
                    /\ vars_table.rows[i].var = v
        /\ \A c \in Categories :
              VarRowsSum(c) >= OfCategory(per_type_bad_units, c)

\* A run ended with a row that counts two FailRecords, in a category whose
\* rows add up to more than its bad_units counter (a subset out of range on
\* two variables), and a category without row.
C22_Witness ==
    /\ pc = "done" /\ vars_table.written
    /\ \E i \in 1..Len(vars_table.rows) : vars_table.rows[i].count = 2
    /\ \E c \in Categories :
          VarRowsSum(c) > OfCategory(per_type_bad_units, c)
    /\ \E c \in Categories : VarRows(c) = {}


\* ---------------------------------------------------------------------------
\* C23: a decoder error at any point of the main pass (advancing, loading a
\* subset, reading a field) leaves check_file as an exception: no Summary
\* is returned (the status is never set and the run never ends normally),
\* none of the three CSV files is written, and the handle is closed.
C23_DecoderErrorAbortsRun ==
    [][/\ pc' = "raised" =>
            /\ handle' = "closed"
            /\ status' = "unset"
            /\ ~csv_table'.written
            /\ ~report_table'.written
            /\ ~vars_table'.written
       /\ pc = "raised" => pc' = "raised"]_vars

\* The decoder raised on a read after one subset was fully checked and had
\* left a FailRecord, in a run that was asked for the three CSV files.
C23_Witness ==
    /\ pc = "raised"
    /\ csv_out /\ report_csv /\ vars_csv
    /\ nsub = 2
    /\ Total(per_type_total) = 1
    /\ Len(fail_records) > 0


\* ---------------------------------------------------------------------------
\* C24: in process, whenever a subset of an input message of type T is
\* written, the output message open has type T: when an input message
\* starts, ensure_open_message leaves the open message untouched if its type
\* is T, and otherwise closes the message open (if any) and then opens one
\* of type T on the output unit.
\* process hands ensure_open_message its arguments in another order than
\* the parameters, so the calls it makes are not these and the statement
\* does not hold of process.
C24_OutputMessageFollowsInputType ==
    [][/\ nout' = nout + 1 => out_msg' = msgtype'
       /\ in_msgs' = in_msgs + 1 =>
            IF out_msg = msgtype'
            THEN msg_calls' = <<>> /\ out_msg' = out_msg
            ELSE /\ msg_calls' =
                      (IF out_msg # PyNone
                       THEN <<BlibCall("closmg", PyInt(L_OUT), PyNone,
                                       PyNone)>>
                       ELSE <<>>)
                      \o <<BlibCall("openmb", PyInt(L_OUT), msgtype',
                                    PyInt(idate_int(idate)))>>
                 /\ out_msg' = msgtype']_vars

\* ---------------------------------------------------------------------------
\* C25: write_subset computes DHR from the date fields only when DHR is
\* absent: a subset with XOB, YOB and DHR present (whatever the DHR, 0
\* included) is written with that DHR and True is returned; False is
\* returned, and nothing written, only when XOB or YOB is missing or DHR is
\* absent and cannot be computed.
\* write_subset takes the DHR of the input by "or", so a DHR of 0.0 counts
\* as absent and the statement does not hold of it.
C25_DhrComputedOnlyWhenAbsent ==
    [][in_subs' = in_subs + 1 =>
         LET has(f) == ~IsNone(read1(rec', f))
             computed == compute_dhr(rec', idate)
             written == Len(out_file') = Len(out_file) + 1
             dhr_written == out_file'[Len(out_file')].sub.hdr[3]
         IN /\ (has("XOB") /\ has("YOB") /\ has("DHR")) =>
                  (ret' /\ written /\ dhr_written = read1(rec', "DHR"))
            /\ (has("XOB") /\ has("YOB") /\ ~has("DHR")
                /\ ~IsNone(computed)) =>
                  (ret' /\ written /\ dhr_written = computed)
            /\ ~ret' =>
                  /\ ~written
                  /\ \/ ~has("XOB") \/ ~has("YOB")
                     \/ (~has("DHR") /\ IsNone(computed))]_vars


\* The place of a FailRecord in the order of the checks: header, time
\* window, final event, units (by the place of the variable in UNIT_VARS),
\* observation errors, platform fields.
CheckOrder ==
    <<FAIL_HDR, FAIL_TIME, FAIL_EVENTS, FAIL_UNITS, FAIL_OBERRS, FAIL_ADPSFC>>
PlaceOf(fr) ==
    10 * (CHOOSE i \in 1..Len(CheckOrder) : CheckOrder[i] = fr.fail_type)
    + (IF fr.fail_type = FAIL_UNITS
       THEN CHOOSE i \in 1..Len(UNIT_VARS) : UNIT_VARS[i] = fr.var
       ELSE 0)

\* ---------------------------------------------------------------------------
\* C26: the FailRecord list is append-only and in the order of occurrence:
\* every step leaves the entries it found in place and unchanged, the subset
\* numbers in the list never decrease, and the FailRecords one subset adds
\* carry its number and come in the order of the checks (header, time
\* window, final event, units in the order XOB, YOB, TOB, POB, ZOB, UOB,
\* VOB, QOB, observation errors, platform fields), none twice.
C26_FailRecordsAppendOnlyInOrder ==
    [][/\ IsPrefix(fail_records, fail_records')
       /\ \A i, j \in 1..Len(fail_records') :
             i < j =>
                fail_records'[i].subset_idx <= fail_records'[j].subset_idx
       /\ \A i \in 1..Len(NewFails) :
             /\ ReadsSubset
             /\ NewFails[i].subset_idx = nsub'
             /\ \A j \in 1..Len(NewFails) :
                   i < j => PlaceOf(NewFails[i]) < PlaceOf(NewFails[j])]_vars

\* The first subset of the run left FailRecords for its header and its
\* missing final event among others; the second fails every other check,
\* the units check on all eight variables.
C26_Witness ==
    /\ nsub = 2
    /\ \E n \in 1..Len(fail_records) :
          /\ \A i \in 1..n : fail_records[i].subset_idx = 1
          /\ \E i \in 1..n : fail_records[i].fail_type = FAIL_HDR
          /\ \E i \in 1..n : fail_records[i].fail_type = FAIL_EVENTS
          /\ \A i \in (n + 1)..Len(fail_records) :
                fail_records[i].subset_idx = 2
          /\ Len(fail_records) - n = 11
          /\ {fail_records[i].fail_type : i \in (n + 1)..Len(fail_records)}
                = {FAIL_TIME, FAIL_UNITS, FAIL_OBERRS, FAIL_ADPSFC}


\* The subsets of the recorded stream, in the order read, and what the
\* validation options alone make of them: the number of subsets of type k
\* (or of any type) that satisfy P, and the FailRecords of the first n.
HistSubs == SelectSeq(hist, LAMBDA e : e.what = "sub")
HistTypes == {hist[i].m : i \in 1..Len(hist)}
UnitOf(unit) ==
    IF unit \notin PRESSURE_UNITS THEN DEFAULT_PRESSURE_UNIT ELSE unit
CountSubs(P(_), K) ==
    Cardinality({i \in 1..Len(HistSubs) :
                    HistSubs[i].m \in K /\ P(HistSubs[i].r)})
ByType(P(_)) == [k \in HistTypes |-> CountSubs(P, {k})]
RECURSIVE FailsOfFirst(_)
FailsOfFirst(n) ==
    IF n = 0 THEN <<>>
    ELSE FailsOfFirst(n - 1)
         \o subset_fail_records(HistSubs[n].r, HistSubs[n].m, n, twind_h,
                                check_oberrs, kind,
                                pressure_scale(UnitOf(pressure_unit)))

\* ---------------------------------------------------------------------------
\* C27: progress reporting does not influence the result.  For the same
\* stream and the same validation options, runs that differ in progress,
\* progress_every, quiet (and in whether tqdm is installed) have the same
\* counters, per-category tables, FailRecord list and status: under every
\* setting of these, each of them is the one function of the stream read
\* and of twind_h, check_oberrs, kind and pressure_unit given below, in
\* which no progress setting occurs.
C27_ResultIndependentOfProgress ==
    (recording /\ pc \in {"main", "done"}) =>
        LET ps == pressure_scale(UnitOf(pressure_unit))
            Every(r) == TRUE
            Hdr(r) == subset_bad_hdr(r)
            Evn(r) == subset_no_events(r)
            Tim(r) == subset_time_oow(r, twind_h)
            Uni(r) == subset_bad_units(r, ps)
            Obe(r) == subset_miss_oberrs(r, check_oberrs)
            Sfc(r) == subset_miss_adpsfc(r, kind, ps)
            App(r) == subset_approved(r, twind_h, check_oberrs, kind, ps)
        IN /\ nmsg = Len(hist) - Len(HistSubs)
           /\ nsub = Len(HistSubs)
           /\ bad_hdr = CountSubs(Hdr, HistTypes)
           /\ no_events = CountSubs(Evn, HistTypes)
           /\ time_oow = CountSubs(Tim, HistTypes)
           /\ bad_units = CountSubs(Uni, HistTypes)
           /\ miss_oberrs = CountSubs(Obe, HistTypes)
           /\ miss_adpsfc = CountSubs(Sfc, HistTypes)
           /\ types = ByType(Every)
           /\ per_type_total = ByType(Every)
           /\ per_type_approved = ByType(App)
           /\ per_type_bad_hdr = ByType(Hdr)
           /\ per_type_no_events = ByType(Evn)
           /\ per_type_time_oow = ByType(Tim)
           /\ per_type_bad_units = ByType(Uni)
           /\ per_type_miss_oberrs = ByType(Obe)
           /\ per_type_miss_adpsfc = ByType(Sfc)
           /\ fail_records = FailsOfFirst(Len(HistSubs))
           /\ status =
                 IF pc = "done"
                 THEN final_status(CountSubs(Hdr, HistTypes),
                                   CountSubs(Evn, HistTypes),
                                   CountSubs(Tim, HistTypes),
                                   CountSubs(Uni, HistTypes),
                                   CountSubs(Obe, HistTypes),
                                   CountSubs(Sfc, HistTypes),
                                   check_oberrs, kind)
                 ELSE "unset"

\* Two subsets were read, one of them failing, in a run that was asked for
\* a bar, fell back to the counter for want of tqdm, and printed a progress
\* line at the second subset.
C27_Witness ==
    /\ pc = "done" /\ nsub = 2 /\ Len(fail_records) > 0
    /\ ~tqdm_installed /\ ~quiet /\ progress_every = 2
    /\ Len(printed) > 0
    /\ printed[Len(printed)] = Line("stdout", "subsets", 2)


\* ---------------------------------------------------------------------------
\* C28: the overall status agrees with per-record approval under every
\* configuration.  At the end of a run status is PASSOU iff every subset
\* was approved, that is iff the sum of per_type_approved over all
\* msg_types equals nsub.
C28_PassIffAllApproved ==
    pc = "done" =>
        (status = "PASSOU" <=> Total(per_type_approved) = nsub)

\* A run ended PASSOU with two subsets approved, the last of which lacks an
\* observation error, check_oberrs off.
C28_Witness ==
    /\ pc = "done" /\ nsub = 2 /\ rec # NoRec
    /\ status = "PASSOU" /\ Total(per_type_approved) = 2
    /\ ~check_oberrs /\ subset_miss_oberrs(rec, TRUE)


\* The six per-type failure counters, and the subsets of category c that
\* have at least one FailRecord.
PerTypeFailureCounters ==
    <<per_type_bad_hdr, per_type_no_events, per_type_time_oow,
      per_type_bad_units, per_type_miss_oberrs, per_type_miss_adpsfc>>
FailedSubsets(c) ==
    {fail_records[i].subset_idx :
        i \in {j \in 1..Len(fail_records) : fail_records[j].msg_type = c}}

\* ---------------------------------------------------------------------------
\* C29: a subset increments each failure counter at most once.  After any
\* prefix of the stream, for every msg_type key each of the six per-type
\* failure counters and per_type_approved is at most per_type_total, and
\* for every category (the text of the msg_type) per_type_total minus
\* per_type_approved is the number of subsets of the category that have at
\* least one FailRecord.
C29_CountersBoundedByTotal ==
    /\ \A k \in DOMAIN per_type_total :
          /\ \A n \in 1..Len(PerTypeFailureCounters) :
                get(PerTypeFailureCounters[n], k) <= per_type_total[k]
          /\ get(per_type_approved, k) <= per_type_total[k]
    /\ \A c \in Categories :
          /\ \A n \in 1..Len(PerTypeFailureCounters) :
                OfCategory(PerTypeFailureCounters[n], c)
                   <= OfCategory(per_type_total, c)
          /\ OfCategory(per_type_total, c) - OfCategory(per_type_approved, c)
                = Cardinality(FailedSubsets(c))

\* Mid-run: two subsets of one category read, one approved; the other out
\* of range on two variables, so that it has two FailRecords and counts
\* once in per_type_bad_units.
C29_Witness ==
    /\ pc = "main"
    /\ \E c \in Categories :
          /\ OfCategory(per_type_total, c) = 2
          /\ OfCategory(per_type_approved, c) = 1
          /\ OfCategory(per_type_bad_units, c) = 1
          /\ Cardinality({i \in 1..Len(fail_records) :
                             /\ fail_records[i].msg_type = c
                             /\ fail_records[i].fail_type = FAIL_UNITS}) = 2


\* The keys of the messages that held no subset, and the status the other
\* keys' counters give.
AllPerType ==
    <<per_type_total, per_type_approved>> \o PerTypeFailureCounters
EmptyKeys == {k \in DOMAIN per_type_total : per_type_total[k] = 0}
StatusOfOthers ==
    LET K == DOMAIN per_type_total \ EmptyKeys
    IN final_status(SumOver(per_type_bad_hdr, K),
                    SumOver(per_type_no_events, K),
                    SumOver(per_type_time_oow, K),
                    SumOver(per_type_bad_units, K),
                    SumOver(per_type_miss_oberrs, K),
                    SumOver(per_type_miss_adpsfc, K),
                    check_oberrs, kind)

\* ---------------------------------------------------------------------------
\* C30: a message without subsets.  advance() counts the message in nmsg
\* and leaves nsub and the six global counters alone; a msg_type seen for
\* the first time enters per_type_total, per_type_approved and the six
\* per-type failure counters with 0, and a key whose total is 0 has 0 in
\* all of them; at the end the status is the one the other keys' counters
\* give; and the row of such a key in the per-type table has total 0,
\* approved 0, the six counts 0 and approved_pct 0.00, computed without a
\* division.
C30_EmptyMessageRegistersZeros ==
    /\ [](\A k \in EmptyKeys : \A n \in 1..Len(AllPerType) :
             k \in DOMAIN AllPerType[n] /\ AllPerType[n][k] = 0)
    /\ []((pc = "done") => status = StatusOfOthers)
    /\ [](csv_table.written =>
            /\ Len(csv_table.rows) = Cardinality(DOMAIN per_type_total)
            /\ \A i \in 1..Len(csv_table.rows) :
                  LET row == csv_table.rows[i]
                  IN row.total = 0 =>
                        /\ row.msg_type \in {b2s(k) : k \in EmptyKeys}
                        /\ row.approved = 0
                        /\ row.approved_pct = [ok |-> TRUE, v |-> 0]
                        /\ row.bad_hdr = 0 /\ row.no_events = 0
                        /\ row.time_oow = 0 /\ row.bad_units = 0
                        /\ row.miss_oberrs = 0 /\ row.miss_adpsfc = 0)
    /\ [][(pc = "main" /\ nmsg' # nmsg) =>
            /\ nmsg' = nmsg + 1
            /\ UNCHANGED <<nsub, bad_hdr, no_events, time_oow, bad_units,
                           miss_oberrs, miss_adpsfc, fail_records>>
            /\ mtyp' \in DOMAIN per_type_total'
            /\ mtyp' \notin DOMAIN per_type_total => mtyp' \in EmptyKeys'
            /\ \A k \in DOMAIN per_type_total :
                  k \in DOMAIN per_type_total'
                  /\ per_type_total'[k] = per_type_total[k]]_vars

\* A run of two messages ended ATENCAO: the first held two subsets, one of
\* them failing, the second, of another msg_type, held none and has its
\* row of zeros in the per-type table.
C30_Witness ==
    /\ pc = "done" /\ nmsg = 2 /\ nsub = 2 /\ status = "ATENCAO"
    /\ mtyp \in EmptyKeys
    /\ csv_table.written
    /\ \E i, j \in 1..Len(csv_table.rows) :
          /\ csv_table.rows[i].total = 0
          /\ csv_table.rows[i].msg_type = b2s(mtyp)
          /\ csv_table.rows[i].approved_pct = [ok |-> TRUE, v |-> 0]
          /\ csv_table.rows[j].total = 2
          /\ csv_table.rows[j].approved = 1

====
